---- MODULE Spec2Model ----
(***************************************************************************)
(* Model of the OCS dashboard: the metrics aggregation engine              *)
(* (src/src/metrics_calculator.py), the data embedded into the generated   *)
(* page and the client-side filter / recomputation script                  *)
(* (src/src/dashboard_generator.py), the normalizer (src/src/models.py)    *)
(* and the loops that load and parse batches of records                    *)
(* (src/run_dashboard.py, src/src/data_utils.py).                          *)
(*                                                                         *)
(* Representation.  A Python/JS string whose characters matter (a tag, a   *)
(* message content) is a tuple of one-character strings; an opaque         *)
(* identifier (session id, experiment id, team slug, role) is a TLA+       *)
(* string.  A dict is a record; a key the dict lacks is a field the record *)
(* lacks, and get(d, k, default) is dict.get.  A dict whose iteration      *)
(* order the code relies on is a sequence of [k, v] entries in insertion   *)
(* order.  A number that may be fractional (median, mean, percentage) is a *)
(* reduced fraction [n, d].                                                *)
(***************************************************************************)
EXTENDS Integers, Sequences, FiniteSets, TLC

VARIABLES
    pc,                     \* "start" | "failed" | "html" | "ready" | "engine"
    sessions,               \* MetricsCalculator.sessions (the raw session dicts)
    messages,               \* MetricsCalculator.messages (the raw message bundles)
    session_messages_map,   \* MetricsCalculator.session_messages_map
    all_metrics,            \* what the last calculate_all_metrics call returned
    calls,                  \* number of calculate_all_metrics calls so far
    allSessionsData,        \* JS global: the embedded session projection
    allMessagesData,        \* JS global: the embedded message bundles
    experimentVersionsData, \* JS global: experiment id -> versions -> count
    checkboxes,             \* #experiment-options checkboxes, in document order
    checked,                \* ids of the experiment checkboxes that are checked
    selectedExperiments,    \* JS global: Set of experiment ids
    selectedVersions,       \* JS global: Map experiment id -> Set of versions
    versionOptions,         \* version rows rendered by updateVersionDisplay
    filteredSessions,       \* updateFilters: the sessions that pass the filter
    filteredMessages,       \* updateFilters: the bundles of those sessions
    metrics,                \* what the metric cards show
    lastOp,                 \* name of the handler that ran last
    deselected,             \* history: the experiments a handler has deselected
    operation,              \* the batch operation that runs, "none" when none does
    records,                \* the records of the batch, in the order they are handled
    cursor,                 \* how many of them the loop has handled
    result,                 \* what the operation has produced so far
    limit,                  \* download-sessions --limit, 0 when it is not given
    word_counts,            \* a bucket of word counts
    medians,                \* the medians computed for that bucket
    server,                 \* the API server: its response format and its pages
    max_pages,              \* the max_pages argument, 0 when it is None
    page_num,               \* _paginate: the number of the page being fetched
    next_url,               \* _paginate: the 'next' of the last response, or None
    all_results,            \* _paginate: the results gathered so far
    total_processed,        \* _paginate_with_callback: the sum of the callback's returns
    depth,                  \* _make_request: how deep the recursion of the last call went
    response,               \* the response _make_request returned, None before
    fetched,                \* history: the results of every page fetched
    delivered               \* history: the pages the callback was called with

vars == << pc, sessions, messages, session_messages_map, all_metrics, calls,
           allSessionsData, allMessagesData, experimentVersionsData,
           checkboxes, checked, selectedExperiments, selectedVersions,
           versionOptions, filteredSessions, filteredMessages, metrics, lastOp,
           deselected, operation, records, cursor, result, limit,
           word_counts, medians, server, max_pages, page_num, next_url,
           all_results, total_processed, depth, response, fetched, delivered >>

batch_vars == << operation, records, cursor, result, limit >>

median_vars == << word_counts, medians >>

paginate_vars == << server, max_pages, page_num, next_url, all_results,
                    total_processed, depth, response, fetched, delivered >>

\* no API call runs
NoPagination ==
    /\ server = <<>>
    /\ max_pages = 0
    /\ page_num = 0
    /\ next_url = <<>>
    /\ all_results = <<>>
    /\ total_processed = 0
    /\ depth = 0
    /\ response = <<>>
    /\ fetched = <<>>
    /\ delivered = <<>>

\* no batch operation runs and no bucket is given
NoBatch ==
    /\ operation = "none"
    /\ records = <<>>
    /\ cursor = 0
    /\ result = <<>>
    /\ limit = 0
    /\ word_counts = <<>>
    /\ medians = <<>>
    /\ NoPagination

-----------------------------------------------------------------------------
(* Dicts, lists and numbers                                                *)

\* dict.get(k, default)
get(d, k, default) == IF k \in DOMAIN d THEN d[k] ELSE default

\* {} : the dict with no key
EmptyDict == [k \in {} |-> 0]

\* An insertion-ordered dict as a sequence of entries [k, v] with distinct keys.
dict_has(d, key) == \E i \in 1..Len(d) : d[i].k = key

dict_get(d, key) == d[CHOOSE i \in 1..Len(d) : d[i].k = key].v

\* d[key] = val : in place when the key exists, appended otherwise
dict_set(d, key, val) ==
    IF dict_has(d, key)
    THEN [i \in 1..Len(d) |-> IF d[i].k = key THEN [k |-> key, v |-> val] ELSE d[i]]
    ELSE Append(d, [k |-> key, v |-> val])

RECURSIVE SeqSum(_)
SeqSum(s) == IF s = <<>> THEN 0 ELSE Head(s) + SeqSum(Tail(s))

RECURSIVE Flatten(_)
Flatten(ss) == IF ss = <<>> THEN <<>> ELSE Head(ss) \o Flatten(Tail(ss))

RECURSIVE Insert(_, _)
Insert(sorted, x) ==
    IF sorted = <<>> THEN <<x>>
    ELSE IF x < Head(sorted) THEN <<x>> \o sorted
    ELSE <<Head(sorted)>> \o Insert(Tail(sorted), x)

\* sorted(list) of numbers, ascending
RECURSIVE Sorted(_)
Sorted(s) == IF s = <<>> THEN <<>> ELSE Insert(Sorted(Tail(s)), Head(s))

RECURSIVE GCD(_, _)
GCD(a, b) == IF b = 0 THEN a ELSE GCD(b, a % b)

\* the number n/d (d > 0, n >= 0) as a reduced fraction
Frac(n, d) == LET g == GCD(n, d) IN [n |-> n \div g, d |-> d \div g]

Zero == Frac(0, 1)

-----------------------------------------------------------------------------
(* Characters and strings                                                  *)

Digits == <<"0", "1", "2", "3", "4", "5", "6", "7", "8", "9">>

IsDigit(c) == \E i \in 1..10 : Digits[i] = c

DigitVal(c) == (CHOOSE i \in 1..10 : Digits[i] = c) - 1

UpperToLower ==
    ("A" :> "a") @@ ("B" :> "b") @@ ("C" :> "c") @@ ("D" :> "d") @@ ("E" :> "e") @@
    ("F" :> "f") @@ ("G" :> "g") @@ ("H" :> "h") @@ ("I" :> "i") @@ ("J" :> "j") @@
    ("K" :> "k") @@ ("L" :> "l") @@ ("M" :> "m") @@ ("N" :> "n") @@ ("O" :> "o") @@
    ("P" :> "p") @@ ("Q" :> "q") @@ ("R" :> "r") @@ ("S" :> "s") @@ ("T" :> "t") @@
    ("U" :> "u") @@ ("V" :> "v") @@ ("W" :> "w") @@ ("X" :> "x") @@ ("Y" :> "y") @@
    ("Z" :> "z")

LowerLetters ==
    {"a", "b", "c", "d", "e", "f", "g", "h", "i", "j", "k", "l", "m", "n", "o", "p",
     "q", "r", "s", "t", "u", "v", "w", "x", "y", "z"}

\* str.lower() / String.prototype.toLowerCase()
lower(s) == [i \in 1..Len(s) |-> IF s[i] \in DOMAIN UpperToLower THEN UpperToLower[s[i]] ELSE s[i]]

\* \w of a regular expression
IsWordChar(c) == c \in LowerLetters \/ c \in DOMAIN UpperToLower \/ IsDigit(c) \/ c = "_"

\* the characters str.split() splits on
IsSpace(c) == c \in {" ", "\t", "\n", "\r"}

\* str.isdigit(): non-empty and every character a digit
isdigit(s) == Len(s) > 0 /\ \A i \in 1..Len(s) : IsDigit(s[i])

\* int(s) / parseInt(s) of a string of decimal digits
RECURSIVE ParseInt(_)
ParseInt(s) ==
    IF s = <<>> THEN 0 ELSE 10 * ParseInt(SubSeq(s, 1, Len(s) - 1)) + DigitVal(s[Len(s)])

\* str(n) of an integer n >= 0 (the key json.dumps writes for an int key)
RECURSIVE IntToStr(_)
IntToStr(n) ==
    IF n < 10 THEN <<Digits[n + 1]>> ELSE IntToStr(n \div 10) \o <<Digits[(n % 10) + 1]>>

\* needle in haystack (Python) / haystack.includes(needle) (JS)
Contains(haystack, needle) ==
    \E i \in 1..(Len(haystack) - Len(needle) + 1) :
        SubSeq(haystack, i, i + Len(needle) - 1) = needle

\* re.search(r'\bWORD\b', text): WORD starts and ends with a word character, so
\* each \b asks for a non-word character, or the end of the text, next to it
SearchWord(word, text) ==
    \E i \in 1..(Len(text) - Len(word) + 1) :
        /\ SubSeq(text, i, i + Len(word) - 1) = word
        /\ (i = 1 \/ ~IsWordChar(text[i - 1]))
        /\ (i + Len(word) - 1 = Len(text) \/ ~IsWordChar(text[i + Len(word)]))

\* len(content.split()): the number of maximal runs of non-whitespace
split_len(content) ==
    Cardinality({ i \in 1..Len(content) :
                    /\ ~IsSpace(content[i])
                    /\ (i = 1 \/ IsSpace(content[i - 1])) })

\* content.split(' ').length: one more than the number of single spaces
split_space_length(content) ==
    1 + Cardinality({ i \in 1..Len(content) : content[i] = " " })

-----------------------------------------------------------------------------
(* Tags.  A tag is a plain string or a {name} object; "type" is the        *)
(* run-time type that isinstance / typeof test.                            *)

PlainTag(s) == [type |-> "str", val |-> s]

DictTag(name) == [type |-> "dict", name |-> name]

\* tag.get('name', '') if isinstance(tag, dict) else str(tag)
tag_name(tag) == IF tag.type = "dict" THEN get(tag, "name", <<>>) ELSE tag.val

\* a version test that does not lower-case the name first
is_version_like_exact(name) ==
    Len(name) > 0 /\ name[1] = "v" /\ isdigit(Tail(name))

\* re.match(r'^v\d+$', tag_name.lower())
is_version_like(name) ==
    LET l == lower(name) IN Len(l) > 0 /\ l[1] = "v" /\ isdigit(Tail(l))

\* isinstance(tag, str) and tag.startswith('v') and tag[1:].isdigit()
is_version_tag(tag) ==
    tag.type = "str" /\ Len(tag.val) > 0 /\ tag.val[1] = "v" /\ isdigit(Tail(tag.val))

coaching == <<"c", "o", "a", "c", "h", "i", "n", "g">>

bot_performance_good ==
    <<"b", "o", "t", "_", "p", "e", "r", "f", "o", "r", "m", "a", "n", "c", "e", "_", "g", "o", "o", "d">>

quality_category_names ==
    { bot_performance_good,
      <<"b", "o", "t", "_", "p", "e", "r", "f", "o", "r", "m", "a", "n", "c", "e", "_", "b", "a", "d">>,
      <<"e", "n", "g", "a", "g", "e", "m", "e", "n", "t", "_", "g", "o", "o", "d">>,
      <<"e", "n", "g", "a", "g", "e", "m", "e", "n", "t", "_", "b", "a", "d">>,
      <<"c", "o", "a", "c", "h", "i", "n", "g", "_", "g", "o", "o", "d">>,
      <<"c", "o", "a", "c", "h", "i", "n", "g", "_", "b", "a", "d">>,
      <<"c", "o", "a", "c", "h", "i", "n", "g", "_", "u", "n", "d", "e", "t", "e", "r", "m", "i", "n", "e", "d">>,
      <<"s", "a", "f", "e">>,
      <<"a", "c", "c", "u", "r", "a", "t", "e">>,
      <<"u", "s", "e", "r", "_", "k", "n", "o", "w", "l", "e", "d", "g", "e", "_", "g", "o", "o", "d">>,
      <<"u", "s", "e", "r", "_", "k", "n", "o", "w", "l", "e", "d", "g", "e", "_", "b", "a", "d">> }

appreciation_patterns ==
    << <<"t", "h", "a", "n", "k">>,
       <<"t", "h", "a", "n", "k", "s">>,
       <<"t", "h", "a", "n", "k", " ", "y", "o", "u">>,
       <<"g", "r", "a", "t", "e", "f", "u", "l">>,
       <<"a", "p", "p", "r", "e", "c", "i", "a", "t", "e">>,
       <<"a", "w", "e", "s", "o", "m", "e">>,
       <<"g", "r", "e", "a", "t">>,
       <<"e", "x", "c", "e", "l", "l", "e", "n", "t">>,
       <<"h", "e", "l", "p", "f", "u", "l">>,
       <<"w", "o", "n", "d", "e", "r", "f", "u", "l">>,
       <<"a", "m", "a", "z", "i", "n", "g">>,
       <<"p", "e", "r", "f", "e", "c", "t">> >>

dissatisfaction_patterns ==
    << <<"f", "r", "u", "s", "t", "r", "a", "t">>,
       <<"c", "o", "n", "f", "u", "s">>,
       <<"w", "r", "o", "n", "g">>,
       <<"b", "a", "d">>,
       <<"t", "e", "r", "r", "i", "b", "l", "e">>,
       <<"a", "w", "f", "u", "l">>,
       <<"u", "s", "e", "l", "e", "s", "s">>,
       <<"s", "t", "u", "p", "i", "d">>,
       <<"d", "o", "n", "'", "t", " ", "u", "n", "d", "e", "r", "s", "t", "a", "n", "d">>,
       <<"d", "o", "e", "s", "n", "'", "t", " ", "w", "o", "r", "k">>,
       <<"n", "o", "t", " ", "h", "e", "l", "p", "f", "u", "l">> >>

\* any(re.search(pattern, content, re.IGNORECASE) for pattern in patterns),
\* content already lower-cased; the patterns are lower-case
any_pattern(patterns, content) ==
    \E p \in 1..Len(patterns) : SearchWord(patterns[p], content)

-----------------------------------------------------------------------------
(* The aggregation engine: MetricsCalculator                               *)

\* an exception that propagates out of a call, in place of its result
Raised(e) == [exception |-> e]

IsRaised(r) == "exception" \in DOMAIN r

\* session.get('experiment', {}).get('id'), None and '' both falsy
experiment_id(session) == get(get(session, "experiment", EmptyDict), "id", "")

\* session.get('team', {}).get('slug')
team_slug(session) == get(get(session, "team", EmptyDict), "slug", "")

RECURSIVE build_map_from(_, _)
build_map_from(msgs, session_map) ==
    IF msgs = <<>> THEN session_map
    ELSE LET session_id == get(Head(msgs), "id", "")
         IN  build_map_from(Tail(msgs),
                 IF session_id # "" THEN dict_set(session_map, session_id, Head(msgs))
                 ELSE session_map)

build_session_messages_map(msgs) == build_map_from(msgs, <<>>)

calculate_basic_stats(ss, map) ==
    [ total_sessions |-> Len(ss),
      sessions_with_messages |->
          Cardinality({ i \in 1..Len(ss) : dict_has(map, get(ss[i], "id", "")) }),
      experiments_count |->
          Cardinality({ experiment_id(ss[i]) : i \in 1..Len(ss) } \ {""}),
      teams_count |->
          Cardinality({ team_slug(ss[i]) : i \in 1..Len(ss) } \ {""}) ]

\* len(content.split()) if content else 0
word_count(message) ==
    LET content == get(message, "content", <<>>)
    IN  IF content # <<>> THEN split_len(content) ELSE 0

\* every message of every bundle of the map, in the map's order
map_messages(map) == Flatten([i \in 1..Len(map) |-> get(map[i].v, "messages", <<>>)])

role_word_counts(msgs, role) ==
    LET HasRole(m) == get(m, "role", "") = role
        of_role == SelectSeq(msgs, HasRole)
    IN  [i \in 1..Len(of_role) |-> word_count(of_role[i])]

\* statistics.median of a non-empty list of integers
statistics_median(data) ==
    LET s == Sorted(data)
        n == Len(s)
        i == n \div 2
    IN  IF n % 2 = 1 THEN Frac(s[i + 1], 1) ELSE Frac(s[i] + s[i + 1], 2)

\* statistics.mean of a non-empty list of integers
statistics_mean(data) == Frac(SeqSum(data), Len(data))

calculate_message_stats(map) ==
    LET msgs == map_messages(map)
        user_word_counts == role_word_counts(msgs, "user")
        assistant_word_counts == role_word_counts(msgs, "assistant")
    IN  [ total_messages |-> Len(msgs),
          median_user_words |->
              IF user_word_counts # <<>> THEN statistics_median(user_word_counts) ELSE Zero,
          median_assistant_words |->
              IF assistant_word_counts # <<>> THEN statistics_median(assistant_word_counts)
              ELSE Zero,
          avg_user_words |->
              IF user_word_counts # <<>> THEN statistics_mean(user_word_counts) ELSE Zero,
          avg_assistant_words |->
              IF assistant_word_counts # <<>> THEN statistics_mean(assistant_word_counts)
              ELSE Zero,
          sessions_with_messages |->
              Cardinality({ i \in 1..Len(map) : get(map[i].v, "messages", <<>>) # <<>> }) ]

\* (count / total * 100) if total > 0 else 0
percentage(count, total) == IF total > 0 THEN Frac(count * 100, total) ELSE Zero

\* a tally that files a message under one category only, appreciation first
calculate_sentiment_stats_exclusive(map) ==
    LET msgs == map_messages(map)
        IsUser(m) == get(m, "role", "") = "user"
        user == SelectSeq(msgs, IsUser)
        content(m) == lower(get(m, "content", <<>>))
        appreciation_count ==
            Cardinality({ i \in 1..Len(user) : any_pattern(appreciation_patterns, content(user[i])) })
        dissatisfaction_count ==
            Cardinality({ i \in 1..Len(user) :
                            /\ ~any_pattern(appreciation_patterns, content(user[i]))
                            /\ any_pattern(dissatisfaction_patterns, content(user[i])) })
        total_user_messages == Len(user)
    IN  [ appreciation_count |-> appreciation_count,
          dissatisfaction_count |-> dissatisfaction_count,
          total_user_messages |-> total_user_messages,
          appreciation_percentage |-> percentage(appreciation_count, total_user_messages),
          dissatisfaction_percentage |-> percentage(dissatisfaction_count, total_user_messages) ]

calculate_sentiment_stats(map) ==
    LET msgs == map_messages(map)
        IsUser(m) == get(m, "role", "") = "user"
        user == SelectSeq(msgs, IsUser)
        content(m) == lower(get(m, "content", <<>>))
        appreciation_count ==
            Cardinality({ i \in 1..Len(user) : any_pattern(appreciation_patterns, content(user[i])) })
        dissatisfaction_count ==
            Cardinality({ i \in 1..Len(user) : any_pattern(dissatisfaction_patterns, content(user[i])) })
        total_user_messages == Len(user)
    IN  [ appreciation_count |-> appreciation_count,
          dissatisfaction_count |-> dissatisfaction_count,
          total_user_messages |-> total_user_messages,
          appreciation_percentage |-> percentage(appreciation_count, total_user_messages),
          dissatisfaction_percentage |-> percentage(dissatisfaction_count, total_user_messages) ]

\* all_tags: the tags of every session, flattened
all_session_tags(ss) == Flatten([i \in 1..Len(ss) |-> get(ss[i], "tags", <<>>)])

\* how many of the tags have the display name `name`
count_named(tags, name) == Cardinality({ i \in 1..Len(tags) : tag_name(tags[i]) = name })

calculate_annotation_stats(ss) ==
    LET all_tags == all_session_tags(ss)
        counted == { tag_name(all_tags[i]) : i \in 1..Len(all_tags) }
        names == { n \in counted : n # <<>> /\ ~is_version_like(n) }
        annotation_counts == [n \in names |-> count_named(all_tags, n)]
    IN  \* len(set(all_tags)): a dict is unhashable
        IF \E i \in 1..Len(all_tags) : all_tags[i].type = "dict"
        THEN Raised("TypeError")
        ELSE [ total_tags |-> Len(all_tags),
               unique_tags |-> Cardinality({ all_tags[i] : i \in 1..Len(all_tags) }),
               sessions_with_tags |->
                   Cardinality({ i \in 1..Len(ss) : get(ss[i], "tags", <<>>) # <<>> }),
               annotation_counts |-> annotation_counts,
               quality_categories |->
                   [c \in quality_category_names |->
                       IF c \in names THEN annotation_counts[c] ELSE 0] ]

\* 'coaching' in tag_name.lower()
is_coaching_tag(tag) == Contains(lower(tag_name(tag)), coaching)

calculate_coaching_quality(ss) ==
    LET all_tags == all_session_tags(ss)
        coaching_tags == SelectSeq(all_tags, is_coaching_tag)
        names == { tag_name(coaching_tags[i]) : i \in 1..Len(coaching_tags) }
        coaching_counts == [n \in names |-> count_named(coaching_tags, n)]
        has_coaching(session) ==
            LET tags == get(session, "tags", <<>>)
            IN  \E j \in 1..Len(tags) : is_coaching_tag(tags[j])
        total_coaching_annotations ==
            Cardinality({ i \in 1..Len(ss) : has_coaching(ss[i]) })
    IN  [ total_coaching_annotations |-> total_coaching_annotations,
          coaching_counts |-> coaching_counts,
          coaching_percentages |->
              [n \in names |-> Frac(coaching_counts[n] * 100, total_coaching_annotations)] ]

\* session.get('experiment', {}).get('version_number', 1)
nominal_version(session) ==
    get(get(session, "experiment", EmptyDict), "version_number", 1)

\* the inner loop of _extract_version_from_session: <<>> when no tag matches
RECURSIVE scan_tags(_)
scan_tags(tags) ==
    IF tags = <<>> THEN <<>>
    ELSE IF is_version_tag(Head(tags)) THEN <<ParseInt(Tail(Head(tags).val))>>
    ELSE scan_tags(Tail(tags))

\* the outer loop of _extract_version_from_session
RECURSIVE scan_messages(_)
scan_messages(msgs) ==
    IF msgs = <<>> THEN <<>>
    ELSE LET found == scan_tags(get(Head(msgs), "tags", <<>>))
         IN  IF found # <<>> THEN found ELSE scan_messages(Tail(msgs))

\* a resolution that trusts the session's own version_number whenever it has one
extract_version_nominal_first(session, map) ==
    LET session_id == get(session, "id", "")
        experiment == get(session, "experiment", EmptyDict)
        found == IF session_id = "" \/ ~dict_has(map, session_id) THEN <<>>
                 ELSE scan_messages(get(dict_get(map, session_id), "messages", <<>>))
    IN  IF "version_number" \in DOMAIN experiment THEN experiment.version_number
        ELSE IF found # <<>> THEN found[1] ELSE 1

extract_version_from_session(session, map) ==
    LET session_id == get(session, "id", "")
    IN  IF session_id = "" \/ ~dict_has(map, session_id)
        THEN nominal_version(session)
        ELSE LET found == scan_messages(get(dict_get(map, session_id), "messages", <<>>))
             IN  IF found # <<>> THEN found[1] ELSE nominal_version(session)

\* experiment_counts, in insertion order
RECURSIVE experiment_counts_from(_, _)
experiment_counts_from(ss, counts) ==
    IF ss = <<>> THEN counts
    ELSE LET exp_id == experiment_id(Head(ss))
         IN  experiment_counts_from(Tail(ss),
                 IF exp_id # ""
                 THEN dict_set(counts, exp_id,
                               IF dict_has(counts, exp_id) THEN dict_get(counts, exp_id) + 1
                               ELSE 1)
                 ELSE counts)

calculate_experiment_stats(ss, map) ==
    LET version_of(i) == extract_version_from_session(ss[i], map)
        \* if exp_id: ... if session_version: version_counts[exp_id][session_version] += 1
        counted == { i \in 1..Len(ss) : experiment_id(ss[i]) # "" /\ version_of(i) # 0 }
        exps == { experiment_id(ss[i]) : i \in counted }
        versions(e) == { version_of(i) : i \in { j \in counted : experiment_id(ss[j]) = e } }
    IN  [ experiment_counts |-> experiment_counts_from(ss, <<>>),
          version_counts |->
              [e \in exps |->
                  [v \in versions(e) |->
                      Cardinality({ i \in counted :
                                      experiment_id(ss[i]) = e /\ version_of(i) = v })]] ]

calculate_all_metrics(ss, map) ==
    LET annotation_stats == calculate_annotation_stats(ss)
    IN  IF IsRaised(annotation_stats) THEN annotation_stats
        ELSE [ basic_stats |-> calculate_basic_stats(ss, map),
               message_stats |-> calculate_message_stats(map),
               sentiment_stats |-> calculate_sentiment_stats(map),
               annotation_stats |-> annotation_stats,
               coaching_quality |-> calculate_coaching_quality(ss),
               experiment_stats |-> calculate_experiment_stats(ss, map) ]

-----------------------------------------------------------------------------
(* DashboardGenerator: what the generated page embeds                      *)

\* _get_sessions_data_json
get_sessions_data_json(ss, map) ==
    [i \in 1..Len(ss) |->
        [ id |-> get(ss[i], "id", ""),
          experiment |-> [ id |-> experiment_id(ss[i]),
                           version_number |-> extract_version_from_session(ss[i], map) ],
          team |-> [ slug |-> team_slug(ss[i]) ],
          tags |-> get(ss[i], "tags", <<>>) ]]

\* _get_messages_data_json
get_messages_data_json(msgs) ==
    [i \in 1..Len(msgs) |->
        [ id |-> get(msgs[i], "id", ""), messages |-> get(msgs[i], "messages", <<>>) ]]

\* _get_experiment_versions_json: json.dumps writes the int version keys as strings
get_experiment_versions_json(metrics_bundle) ==
    LET version_counts == metrics_bundle.experiment_stats.version_counts
    IN  [e \in DOMAIN version_counts |->
            [ versions |->
                [key \in { IntToStr(v) : v \in DOMAIN version_counts[e] } |->
                    version_counts[e][ParseInt(key)]] ]]

\* list.sort(key=count, reverse=True) is stable: an entry goes after the entries
\* that count at least as much
RECURSIVE insert_by_count(_, _)
insert_by_count(sorted, entry) ==
    IF sorted = <<>> THEN <<entry>>
    ELSE IF Head(sorted).v >= entry.v
         THEN <<Head(sorted)>> \o insert_by_count(Tail(sorted), entry)
         ELSE <<entry>> \o sorted

RECURSIVE sort_by_count(_, _)
sort_by_count(entries, sorted) ==
    IF entries = <<>> THEN sorted
    ELSE sort_by_count(Tail(entries), insert_by_count(sorted, Head(entries)))

\* _generate_filters_ui: one checkbox per experiment, most sessions first
experiment_options(metrics_bundle) ==
    LET options == sort_by_count(metrics_bundle.experiment_stats.experiment_counts, <<>>)
    IN  [i \in 1..Len(options) |-> options[i].k]

\* _generate_metrics_summary: the values the cards are rendered with
metrics_summary(metrics_bundle) ==
    [ totalSessions |-> metrics_bundle.basic_stats.total_sessions,
      experimentsCount |-> metrics_bundle.basic_stats.experiments_count,
      teamsCount |-> metrics_bundle.basic_stats.teams_count,
      sessionsWithMessages |-> metrics_bundle.basic_stats.sessions_with_messages,
      totalMessages |-> metrics_bundle.message_stats.total_messages,
      medianUserWords |-> metrics_bundle.message_stats.median_user_words,
      medianBotWords |-> metrics_bundle.message_stats.median_assistant_words,
      annotatedSessions |-> metrics_bundle.annotation_stats.sessions_with_tags,
      appreciationCount |-> metrics_bundle.sentiment_stats.appreciation_count,
      dissatisfactionCount |-> metrics_bundle.sentiment_stats.dissatisfaction_count,
      appreciationPercentage |-> metrics_bundle.sentiment_stats.appreciation_percentage,
      dissatisfactionPercentage |-> metrics_bundle.sentiment_stats.dissatisfaction_percentage,
      coachingAnnotations |-> metrics_bundle.coaching_quality.total_coaching_annotations,
      botPerformanceGood |->
          metrics_bundle.annotation_stats.quality_categories[bot_performance_good] ]

-----------------------------------------------------------------------------
(* The page's script: recomputation                                        *)

\* function median(arr)
\* the page's median with the upper middle value for an even length
median_upper_middle(arr) ==
    IF Len(arr) = 0 THEN Zero
    ELSE LET sorted == Sorted(arr)
             mid == Len(sorted) \div 2
         IN  Frac(sorted[mid + 1], 1)

median(arr) ==
    IF Len(arr) = 0 THEN Zero
    ELSE LET sorted == Sorted(arr)
             mid == Len(sorted) \div 2
         IN  IF Len(sorted) % 2 = 0 THEN Frac(sorted[mid] + sorted[mid + 1], 2)
             ELSE Frac(sorted[mid + 1], 1)

\* typeof tag === 'string' ? tag : tag.name || ''
tagName(tag) == IF tag.type = "str" THEN tag.val ELSE get(tag, "name", <<>>)

\* (msg.content || '').split(' ').length
wordCount(msg) == split_space_length(get(msg, "content", <<>>))

\* messages.forEach(msgData => { if (msgData.id) sessionMessagesMap[msgData.id] = msgData })
RECURSIVE sessionMessagesMapFrom(_, _)
sessionMessagesMapFrom(msgs, map) ==
    IF msgs = <<>> THEN map
    ELSE sessionMessagesMapFrom(Tail(msgs),
             IF Head(msgs).id # "" THEN dict_set(map, Head(msgs).id, Head(msgs)) ELSE map)

\* function calculateMetrics(sessions, messages)
calculateMetrics(ss, msgs) ==
    LET sessionMessagesMap == sessionMessagesMapFrom(msgs, <<>>)
        \* sessions.forEach(session => sessionMessagesMap[session.id].messages.forEach(...))
        bundle(i) == IF dict_has(sessionMessagesMap, ss[i].id)
                     THEN dict_get(sessionMessagesMap, ss[i].id).messages ELSE <<>>
        all == Flatten([i \in 1..Len(ss) |-> bundle(i)])
        IsUser(m) == get(m, "role", "") = "user"
        IsAssistant(m) == get(m, "role", "") = "assistant"
        user == SelectSeq(all, IsUser)
        assistant == SelectSeq(all, IsAssistant)
        userWordCounts == [i \in 1..Len(user) |-> wordCount(user[i])]
        botWordCounts == [i \in 1..Len(assistant) |-> wordCount(assistant[i])]
        lowerContent(m) == lower(get(m, "content", <<>>))
        appreciationCount ==
            Cardinality({ i \in 1..Len(user) :
                            any_pattern(appreciation_patterns, lowerContent(user[i])) })
        dissatisfactionCount ==
            Cardinality({ i \in 1..Len(user) :
                            any_pattern(dissatisfaction_patterns, lowerContent(user[i])) })
        totalUserMessages == Len(user)
        \* sessions.forEach(session => tags.forEach(tag => ...))
        tags == Flatten([i \in 1..Len(ss) |-> ss[i].tags])
        IsCoaching(tag) == Contains(lower(tagName(tag)), coaching)
        IsBotPerformanceGood(tag) == tagName(tag) = bot_performance_good
    IN  [ totalSessions |-> Len(ss),
          experimentsCount |-> Cardinality({ ss[i].experiment.id : i \in 1..Len(ss) } \ {""}),
          teamsCount |-> Cardinality({ ss[i].team.slug : i \in 1..Len(ss) } \ {""}),
          sessionsWithMessages |->
              Cardinality({ i \in 1..Len(ss) : dict_has(sessionMessagesMap, ss[i].id) }),
          totalMessages |-> Len(all),
          medianUserWords |-> IF Len(userWordCounts) > 0 THEN median(userWordCounts) ELSE Zero,
          medianBotWords |-> IF Len(botWordCounts) > 0 THEN median(botWordCounts) ELSE Zero,
          annotatedSessions |-> Cardinality({ i \in 1..Len(ss) : Len(ss[i].tags) > 0 }),
          appreciationCount |-> appreciationCount,
          dissatisfactionCount |-> dissatisfactionCount,
          appreciationPercentage |-> percentage(appreciationCount, totalUserMessages),
          dissatisfactionPercentage |-> percentage(dissatisfactionCount, totalUserMessages),
          coachingAnnotations |-> Len(SelectSeq(tags, IsCoaching)),
          botPerformanceGood |-> Len(SelectSeq(tags, IsBotPerformanceGood)) ]

-----------------------------------------------------------------------------
(* The page's script: filter state.  A handler is an operator from the     *)
(* filter state st = [checked, selectedExperiments, selectedVersions,      *)
(* versionOptions] before it to the filter state after it; evd is          *)
(* experimentVersionsData and boxes the experiment checkboxes.             *)

\* Map.set / Map.delete on selectedVersions
map_set(m, key, val) == [x \in DOMAIN m \cup {key} |-> IF x = key THEN val ELSE m[x]]

map_delete(m, key) == [x \in DOMAIN m \ {key} |-> m[x]]

\* Object.keys(experimentVersionsData[expId].versions).map(v => parseInt(v))
known_versions(evd, expId) == { ParseInt(key) : key \in DOMAIN evd[expId].versions }

\* Math.max(...versions)
MaxOf(S) == CHOOSE x \in S : \A y \in S : y <= x

\* a per-session test that shows everything while no experiment is selected
passes_filter_unfiltered(session, selExp, selVer) ==
    \/ selExp = {}
    \/ /\ session.experiment.id \in selExp
       /\ session.experiment.id \in DOMAIN selVer
       /\ (IF session.experiment.version_number # 0
           THEN session.experiment.version_number ELSE 1) \in selVer[session.experiment.id]

\* the per-session test of updateFilters
passes_filter(session, selExp, selVer) ==
    LET expId == session.experiment.id
        \* session.experiment?.version_number || 1
        version == IF session.experiment.version_number # 0
                   THEN session.experiment.version_number ELSE 1
    IN  /\ selExp # {}
        /\ expId \in selExp
        /\ expId \in DOMAIN selVer
        /\ selVer[expId] # {}
        /\ version \in selVer[expId]

\* updateFilters: filteredSessions
filter_sessions(data, selExp, selVer) ==
    LET Passes(session) == passes_filter(session, selExp, selVer)
    IN  SelectSeq(data, Passes)

\* updateFilters: filteredMessages
filter_messages(data, filtered) ==
    LET filteredSessionIds == { filtered[i].id : i \in 1..Len(filtered) }
        Kept(msg) == msg.id \in filteredSessionIds
    IN  SelectSeq(data, Kept)

updateVersionDisplay(st, evd) ==
    [st EXCEPT !.versionOptions =
        IF st.selectedExperiments = {} THEN {}
        ELSE UNION { { <<expId, version>> : version \in known_versions(evd, expId) } :
                     expId \in st.selectedExperiments \cap DOMAIN evd }]

\* every selected experiment the page has versions for gets all of them
selectAllVersions(st, evd) ==
    LET with_data == st.selectedExperiments \cap DOMAIN evd
        old(expId) == IF expId \in DOMAIN st.selectedVersions
                      THEN st.selectedVersions[expId] ELSE {}
    IN  updateVersionDisplay(
            [st EXCEPT !.selectedVersions =
                [expId \in DOMAIN st.selectedVersions \cup with_data |->
                    IF expId \in with_data THEN old(expId) \cup known_versions(evd, expId)
                    ELSE st.selectedVersions[expId]]],
            evd)

selectAllExperiments(st, evd, boxes) ==
    LET all == { boxes[i] : i \in 1..Len(boxes) }
    IN  selectAllVersions(
            updateVersionDisplay(
                [st EXCEPT !.checked = all,
                           !.selectedExperiments = st.selectedExperiments \cup all],
                evd),
            evd)

\* updateExperimentSelection without "clear versions for unselected experiments"
updateExperimentSelection_keeping(st, evd, boxes) ==
    LET newSelectedExperiments == { boxes[i] : i \in { j \in 1..Len(boxes) : boxes[j] \in st.checked } }
        just == (newSelectedExperiments \ st.selectedExperiments) \cap DOMAIN evd
        old(expId) == IF expId \in DOMAIN st.selectedVersions
                      THEN st.selectedVersions[expId] ELSE {}
    IN  updateVersionDisplay(
            [st EXCEPT !.selectedExperiments = newSelectedExperiments,
                       !.selectedVersions =
                           [expId \in DOMAIN st.selectedVersions \cup just |->
                               IF expId \in just
                               THEN old(expId) \cup known_versions(evd, expId)
                               ELSE st.selectedVersions[expId]]],
            evd)

updateExperimentSelection(st, evd, boxes) ==
    LET previouslySelected == st.selectedExperiments
        newSelectedExperiments == { boxes[i] : i \in { j \in 1..Len(boxes) : boxes[j] \in st.checked } }
        \* just selected, and the page has versions for it
        just == (newSelectedExperiments \ previouslySelected) \cap DOMAIN evd
        old(expId) == IF expId \in DOMAIN st.selectedVersions
                      THEN st.selectedVersions[expId] ELSE {}
        added == [expId \in DOMAIN st.selectedVersions \cup just |->
                     IF expId \in just THEN old(expId) \cup known_versions(evd, expId)
                     ELSE st.selectedVersions[expId]]
    IN  updateVersionDisplay(
            [st EXCEPT !.selectedExperiments = newSelectedExperiments,
                       \* clear versions for unselected experiments
                       !.selectedVersions =
                           [expId \in DOMAIN added \cap newSelectedExperiments |-> added[expId]]],
            evd)

clearAllExperiments(st, evd, boxes) ==
    updateExperimentSelection(
        [st EXCEPT !.checked = {}, !.selectedExperiments = {}, !.selectedVersions = EmptyDict],
        evd, boxes)

selectTopExperiments(st, evd, boxes, count) ==
    LET cleared == clearAllExperiments(st, evd, boxes)
        n == IF count < Len(boxes) THEN count ELSE Len(boxes)
        top == { boxes[i] : i \in 1..n }
    IN  [cleared EXCEPT !.checked = cleared.checked \cup top,
                        !.selectedExperiments = cleared.selectedExperiments \cup top]

clearAllVersions(st, evd) ==
    updateVersionDisplay([st EXCEPT !.selectedVersions = EmptyDict], evd)

\* selectLatestVersions without its clearAllVersions()
selectLatestVersions_adding(st, evd) ==
    LET with_data == { expId \in st.selectedExperiments \cap DOMAIN evd :
                         known_versions(evd, expId) # {} }
        old(expId) == IF expId \in DOMAIN st.selectedVersions
                      THEN st.selectedVersions[expId] ELSE {}
    IN  updateVersionDisplay(
            [st EXCEPT !.selectedVersions =
                [expId \in DOMAIN st.selectedVersions \cup with_data |->
                    IF expId \in with_data
                    THEN old(expId) \cup { MaxOf(known_versions(evd, expId)) }
                    ELSE st.selectedVersions[expId]]],
            evd)

selectLatestVersions(st, evd) ==
    LET cleared == clearAllVersions(st, evd)
        with_data == { expId \in cleared.selectedExperiments \cap DOMAIN evd :
                         known_versions(evd, expId) # {} }
    IN  updateVersionDisplay(
            [cleared EXCEPT !.selectedVersions =
                [expId \in with_data |-> { MaxOf(known_versions(evd, expId)) }]],
            evd)

toggleExperimentFilter(st, evd, boxes, expId) ==
    updateExperimentSelection(
        [st EXCEPT !.checked = IF expId \in st.checked THEN st.checked \ {expId}
                               ELSE st.checked \cup {expId}],
        evd, boxes)

toggleVersionFilter(st, evd, expId, version) ==
    LET versionSet == IF expId \in DOMAIN st.selectedVersions
                      THEN st.selectedVersions[expId] ELSE {}
    IN  updateVersionDisplay(
            [st EXCEPT !.selectedVersions =
                IF version \in versionSet
                THEN IF versionSet \ {version} = {} THEN map_delete(st.selectedVersions, expId)
                     ELSE map_set(st.selectedVersions, expId, versionSet \ {version})
                ELSE map_set(st.selectedVersions, expId, versionSet \cup {version})],
            evd)

-----------------------------------------------------------------------------
(* Input domains                                                           *)

\* most sessions / message bundles of a loaded dataset
MaxSessions == 3

MaxBundles == 2

\* most calculate_all_metrics calls on one MetricsCalculator
MaxCalls == 3

coaching_good == <<"c", "o", "a", "c", "h", "i", "n", "g", "_", "g", "o", "o", "d">>
coaching_bad == <<"c", "o", "a", "c", "h", "i", "n", "g", "_", "b", "a", "d">>
thanks_a_lot == <<"T", "h", "a", "n", "k", "s", " ", "a", " ", " ", "l", "o", "t">>
so_wrong == <<"s", "o", " ", "w", "r", "o", "n", "g">>
thank_you_wrong ==
    <<"T", "h", "a", "n", "k", " ", "y", "o", "u", ",", " ", "t", "h", "a", "n", "k", "s", ".", " ", "W", "R", "O", "N", "G", ",", " ", "s", "o", " ", "w", "r", "o", "n", "g">>
my_confusion == <<"m", "y", " ", "c", "o", "n", "f", "u", "s", "i", "o", "n">>

\* Session files as download-sessions writes them (Session.to_dict): every key
\* is present, a version_number the API left out is 0.
SessionPool ==
    << [ id |-> "s1", experiment |-> [id |-> "A", version_number |-> 1],
         team |-> [slug |-> "t1"], tags |-> <<>> ],
       [ id |-> "s2", experiment |-> [id |-> "A", version_number |-> 2],
         team |-> [slug |-> "t1"],
         tags |-> <<PlainTag(coaching_good), PlainTag(coaching_bad)>> ],
       [ id |-> "s3", experiment |-> [id |-> "B", version_number |-> 1],
         team |-> [slug |-> "t2"], tags |-> <<PlainTag(<<"V", "3">>)>> ],
       [ id |-> "s4", experiment |-> [id |-> "A", version_number |-> 0],
         team |-> [slug |-> ""], tags |-> <<>> ],
       [ id |-> "s5", experiment |-> [id |-> "", version_number |-> 0],
         team |-> [slug |-> "t2"], tags |-> <<PlainTag(bot_performance_good)>> ],
       [ id |-> "s6", experiment |-> [id |-> "B", version_number |-> 2],
         team |-> [slug |-> "t1"], tags |-> <<DictTag(coaching_good)>> ] >>

\* Message files as download-messages writes them (the API's answer, as is);
\* "s9" is the bundle of a session whose own file did not load.
BundlePool ==
    << [ id |-> "s1",
         messages |-> << [role |-> "user", content |-> thanks_a_lot,
                          tags |-> <<PlainTag(<<"v", "2">>)>>],
                         [role |-> "assistant", content |-> <<>>, tags |-> <<>>] >> ],
       [ id |-> "s2", messages |-> <<>> ],
       [ id |-> "s3",
         messages |-> << [role |-> "user", content |-> so_wrong,
                          tags |-> <<PlainTag(<<"V", "9">>), PlainTag(<<"v">>)>>],
                         [role |-> "user", tags |-> <<>>] >> ],
       [ id |-> "s4",
         messages |-> << [role |-> "system", content |-> <<"h", "i">>],
                         [role |-> "assistant", content |-> thanks_a_lot,
                          tags |-> <<PlainTag(<<"x">>), PlainTag(<<"v", "1">>)>>],
                         [role |-> "user", content |-> <<"o", "k">>,
                          tags |-> <<PlainTag(<<"v", "2">>)>>] >> ],
       [ id |-> "s9",
         messages |-> << [role |-> "user", content |-> <<"g", "r", "e", "a", "t">>,
                          tags |-> <<>>] >> ] >>

\* the k-th smallest element of a set of numbers
KthOf(I, k) == CHOOSE i \in I : Cardinality({ j \in I : j < i }) = k - 1

\* the subsequences of pool with at most max elements
SubSeqsOf(pool, max) ==
    { [k \in 1..Cardinality(I) |-> pool[KthOf(I, k)]] :
        I \in { J \in SUBSET (1..Len(pool)) : Cardinality(J) <= max } }

-----------------------------------------------------------------------------
(* The pipeline: generate the page, load it, use the filters               *)

Init ==
    /\ pc = "start"
    /\ sessions \in SubSeqsOf(SessionPool, MaxSessions)
    /\ messages \in SubSeqsOf(BundlePool, MaxBundles)
    /\ session_messages_map = <<>>
    /\ all_metrics = EmptyDict
    /\ calls = 0
    /\ allSessionsData = <<>>
    /\ allMessagesData = <<>>
    /\ experimentVersionsData = EmptyDict
    /\ checkboxes = <<>>
    /\ checked = {}
    /\ selectedExperiments = {}
    /\ selectedVersions = EmptyDict
    /\ versionOptions = {}
    /\ filteredSessions = <<>>
    /\ filteredMessages = <<>>
    /\ metrics = EmptyDict
    /\ lastOp = "none"
    /\ deselected = {}
    /\ NoBatch

client_vars ==
    << checked, selectedExperiments, selectedVersions, versionOptions,
       filteredSessions, filteredMessages, deselected >>

page_vars == << allSessionsData, allMessagesData, experimentVersionsData, checkboxes >>

engine_vars == << sessions, messages, session_messages_map, all_metrics, calls >>

\* DashboardGenerator.generate_dashboard: _fetch_all_data, then the three renderers
\* that each call calculate_all_metrics, then the page is written
generate_dashboard ==
    /\ pc = "start"
    /\ lastOp' = "generate_dashboard"
    /\ UNCHANGED << sessions, messages, client_vars, batch_vars, median_vars, paginate_vars >>
    /\ IF sessions = <<>>
       THEN \* raise Exception("No session data found. ...")
            /\ pc' = "failed"
            /\ UNCHANGED << session_messages_map, all_metrics, calls, page_vars, metrics >>
       ELSE LET map == build_session_messages_map(messages)
                bundle == calculate_all_metrics(sessions, map)
            IN  /\ session_messages_map' = map
                /\ all_metrics' = bundle
                /\ IF IsRaised(bundle)
                   THEN /\ pc' = "failed"
                        /\ calls' = calls + 1
                        /\ UNCHANGED << page_vars, metrics >>
                   ELSE /\ pc' = "html"
                        /\ calls' = calls + 3
                        /\ allSessionsData' = get_sessions_data_json(sessions, map)
                        /\ allMessagesData' = get_messages_data_json(messages)
                        /\ experimentVersionsData' = get_experiment_versions_json(bundle)
                        /\ checkboxes' = experiment_options(bundle)
                        /\ metrics' = metrics_summary(bundle)

filter_state ==
    [ checked |-> checked, selectedExperiments |-> selectedExperiments,
      selectedVersions |-> selectedVersions, versionOptions |-> versionOptions ]

\* the end of every handler: the filter state st is stored and updateFilters runs
Handled(st, op) ==
    LET filtered == filter_sessions(allSessionsData, st.selectedExperiments, st.selectedVersions)
        kept == filter_messages(allMessagesData, filtered)
    IN  /\ checked' = st.checked
        /\ selectedExperiments' = st.selectedExperiments
        /\ selectedVersions' = st.selectedVersions
        /\ versionOptions' = st.versionOptions
        /\ filteredSessions' = filtered
        /\ filteredMessages' = kept
        /\ metrics' = calculateMetrics(filtered, kept)
        /\ lastOp' = op
        /\ deselected' = deselected \cup (selectedExperiments \ st.selectedExperiments)
        /\ UNCHANGED << engine_vars, page_vars, batch_vars, median_vars, paginate_vars >>

\* document.addEventListener('DOMContentLoaded', ...)
DOMContentLoaded ==
    /\ pc = "html"
    /\ pc' = "ready"
    /\ Handled(updateVersionDisplay(filter_state, experimentVersionsData), "DOMContentLoaded")

ClickSelectAllExperiments ==
    /\ pc = "ready"
    /\ UNCHANGED pc
    /\ Handled(selectAllExperiments(filter_state, experimentVersionsData, checkboxes),
               "selectAllExperiments")

ClickClearAllExperiments ==
    /\ pc = "ready"
    /\ UNCHANGED pc
    /\ Handled(clearAllExperiments(filter_state, experimentVersionsData, checkboxes),
               "clearAllExperiments")

\* the "Top 10" button: selectTopExperiments(10)
TopCount == 10

ClickSelectTopExperiments ==
    /\ pc = "ready"
    /\ UNCHANGED pc
    /\ Handled(selectTopExperiments(filter_state, experimentVersionsData, checkboxes, TopCount),
               "selectTopExperiments")

ClickSelectAllVersions ==
    /\ pc = "ready"
    /\ UNCHANGED pc
    /\ Handled(selectAllVersions(filter_state, experimentVersionsData), "selectAllVersions")

ClickClearAllVersions ==
    /\ pc = "ready"
    /\ UNCHANGED pc
    /\ Handled(clearAllVersions(filter_state, experimentVersionsData), "clearAllVersions")

ClickSelectLatestVersions ==
    /\ pc = "ready"
    /\ UNCHANGED pc
    /\ Handled(selectLatestVersions(filter_state, experimentVersionsData),
               "selectLatestVersions")

\* a click on an experiment row or on its checkbox
ClickExperiment ==
    /\ pc = "ready"
    /\ UNCHANGED pc
    /\ \E i \in 1..Len(checkboxes) :
          Handled(toggleExperimentFilter(filter_state, experimentVersionsData, checkboxes,
                                         checkboxes[i]),
                  "toggleExperimentFilter")

\* a click on a rendered version row or on its checkbox
ClickVersion ==
    /\ pc = "ready"
    /\ UNCHANGED pc
    /\ \E option \in versionOptions :
          Handled(toggleVersionFilter(filter_state, experimentVersionsData,
                                      option[1], option[2]),
                  "toggleVersionFilter")

Next ==
    \/ generate_dashboard
    \/ DOMContentLoaded
    \/ ClickSelectAllExperiments
    \/ ClickClearAllExperiments
    \/ ClickSelectTopExperiments
    \/ ClickSelectAllVersions
    \/ ClickClearAllVersions
    \/ ClickSelectLatestVersions
    \/ ClickExperiment
    \/ ClickVersion

Spec == Init /\ [][Next]_vars

-----------------------------------------------------------------------------
(* The engine on its own: a MetricsCalculator built on arbitrary lists of  *)
(* dicts, and calls of its methods                                         *)

\* what the engine may be given besides normalized session files: dicts that
\* lack keys, a session without id
EngineSessionPool ==
    SessionPool \o
    << [ id |-> "s7" ],
       [ id |-> "s8", experiment |-> [id |-> "B"],
         tags |-> <<PlainTag(coaching_good), PlainTag(<<"v", "7">>), PlainTag(coaching_good),
                    PlainTag(<<>>)>> ],
       [ id |-> "", experiment |-> [id |-> "A", version_number |-> 3],
         team |-> [slug |-> "t1"], tags |-> <<>> ] >>

EngineBundlePool ==
    BundlePool \o
    << [ id |-> "s8",
         messages |-> << [role |-> "assistant", content |-> <<"o", "k">>],
                         [role |-> "user", content |-> <<" ">>,
                          tags |-> <<DictTag(<<"v", "4">>), PlainTag(<<"v", "1", "0">>),
                                     PlainTag(<<"v", "5">>)>>],
                         [role |-> "user", content |-> thank_you_wrong],
                         [role |-> "user", content |-> my_confusion],
                         [role |-> "system", content |-> so_wrong] >> ],
       [ messages |-> << [role |-> "user", content |-> so_wrong,
                          tags |-> <<PlainTag(<<"v", "6">>)>>] >> ] >>

\* MetricsCalculator.__init__
InitEngine ==
    /\ pc = "engine"
    /\ sessions \in SubSeqsOf(EngineSessionPool, MaxSessions)
    /\ messages \in SubSeqsOf(EngineBundlePool, MaxBundles)
    /\ session_messages_map = build_session_messages_map(messages)
    /\ all_metrics = EmptyDict
    /\ calls = 0
    /\ allSessionsData = <<>>
    /\ allMessagesData = <<>>
    /\ experimentVersionsData = EmptyDict
    /\ checkboxes = <<>>
    /\ checked = {}
    /\ selectedExperiments = {}
    /\ selectedVersions = EmptyDict
    /\ versionOptions = {}
    /\ filteredSessions = <<>>
    /\ filteredMessages = <<>>
    /\ metrics = EmptyDict
    /\ lastOp = "none"
    /\ deselected = {}
    /\ NoBatch

\* a call that drains each bundle's message list while it reads it
CallCalculateAllMetricsDraining ==
    /\ pc = "engine"
    /\ calls < MaxCalls
    /\ all_metrics' = calculate_all_metrics(sessions, session_messages_map)
    /\ session_messages_map' =
           [i \in 1..Len(session_messages_map) |->
               [ k |-> session_messages_map[i].k,
                 v |-> [x \in DOMAIN session_messages_map[i].v |->
                           IF x = "messages" THEN <<>> ELSE session_messages_map[i].v[x]] ]]
    /\ calls' = calls + 1
    /\ lastOp' = "calculate_all_metrics"
    /\ UNCHANGED << pc, sessions, messages, page_vars, client_vars, metrics, batch_vars,
                    median_vars, paginate_vars >>

\* a call of MetricsCalculator.calculate_all_metrics: it assigns nothing
CallCalculateAllMetrics ==
    /\ pc = "engine"
    /\ calls < MaxCalls
    /\ all_metrics' = calculate_all_metrics(sessions, session_messages_map)
    /\ calls' = calls + 1
    /\ lastOp' = "calculate_all_metrics"
    /\ UNCHANGED << pc, sessions, messages, session_messages_map, page_vars, client_vars,
                    metrics, batch_vars, median_vars, paginate_vars >>

\* a call of DashboardGenerator._get_sessions_data_json on that calculator
CallGetSessionsDataJson ==
    /\ pc = "engine"
    /\ allSessionsData' = get_sessions_data_json(sessions, session_messages_map)
    /\ lastOp' = "_get_sessions_data_json"
    /\ UNCHANGED << pc, engine_vars, allMessagesData, experimentVersionsData, checkboxes,
                    client_vars, metrics, batch_vars, median_vars, paginate_vars >>

NextEngine ==
    \/ CallCalculateAllMetrics
    \/ CallGetSessionsDataJson

SpecEngine == InitEngine /\ [][NextEngine]_vars

-----------------------------------------------------------------------------
(* models.py: the median of a bucket of word counts, next to the engine's  *)
(* and the page's                                                          *)

\* no page is generated and no engine is built
NoDashboard ==
    /\ sessions = <<>>
    /\ messages = <<>>
    /\ session_messages_map = <<>>
    /\ all_metrics = EmptyDict
    /\ calls = 0
    /\ allSessionsData = <<>>
    /\ allMessagesData = <<>>
    /\ experimentVersionsData = EmptyDict
    /\ checkboxes = <<>>
    /\ checked = {}
    /\ selectedExperiments = {}
    /\ selectedVersions = EmptyDict
    /\ versionOptions = {}
    /\ filteredSessions = <<>>
    /\ filteredMessages = <<>>
    /\ metrics = EmptyDict
    /\ lastOp = "none"
    /\ deselected = {}

dashboard_vars == << sessions, messages, session_messages_map, all_metrics, calls,
                     allSessionsData, allMessagesData, experimentVersionsData,
                     checkboxes, checked, selectedExperiments, selectedVersions,
                     versionOptions, filteredSessions, filteredMessages, metrics,
                     lastOp, deselected >>

\* DashboardData.get_median_user_words on the list get_user_word_counts returns
get_median_user_words(counts) ==
    IF counts = <<>> THEN Zero
    ELSE LET sorted_counts == Sorted(counts)
             n == Len(sorted_counts)
         IN  IF n % 2 = 0
             THEN Frac(sorted_counts[n \div 2] + sorted_counts[n \div 2 + 1], 2)
             ELSE Frac(sorted_counts[n \div 2 + 1], 1)

\* 'median_user_words' of _calculate_message_stats for a list of word counts
median_user_words(counts) ==
    IF counts # <<>> THEN statistics_median(counts) ELSE Zero

MaxBucket == 3
MaxWords == 3

Buckets == UNION { [1..n -> 0..MaxWords] : n \in 0..MaxBucket }

InitMedian ==
    /\ pc = "bucket"
    /\ word_counts \in Buckets
    /\ medians = <<>>
    /\ operation = "none"
    /\ records = <<>>
    /\ cursor = 0
    /\ result = <<>>
    /\ limit = 0
    /\ NoDashboard
    /\ NoPagination

\* the three implementations on the same bucket
ComputeMedians ==
    /\ pc = "bucket"
    /\ medians' = [ engine |-> median_user_words(word_counts),
                    models |-> get_median_user_words(word_counts),
                    client |-> median(word_counts) ]
    /\ pc' = "medians"
    /\ UNCHANGED << word_counts, batch_vars, dashboard_vars, paginate_vars >>

NextMedian == ComputeMedians

SpecMedian == InitMedian /\ [][NextMedian]_vars

-----------------------------------------------------------------------------
(* models.py: the normalizer.  A raw record is a dict; a nested value that *)
(* is not a dict is None.  A timestamp is a string whose characters        *)
(* matter; a datetime is its fields, tzinfo None or an offset in minutes.  *)

NoneValue == [type |-> "NoneType"]

\* a list where None (JSON null) may stand instead: the value of 'messages'
ListValue(items) == [type |-> "list", items |-> items]

\* str.replace('Z', '+00:00')
RECURSIVE replace_Z(_)
replace_Z(s) ==
    IF s = <<>> THEN <<>>
    ELSE (IF Head(s) = "Z" THEN <<"+", "0", "0", ":", "0", "0">> ELSE <<Head(s)>>)
             \o replace_Z(Tail(s))

\* the two digits of s at i and i + 1 as a number, -1 when they are not digits
TwoDigits(s, i) ==
    IF IsDigit(s[i]) /\ IsDigit(s[i + 1]) THEN ParseInt(<<s[i], s[i + 1]>>) ELSE 0 - 1

DaysInMonth(year, month) ==
    IF month \in {4, 6, 9, 11} THEN 30
    ELSE IF month # 2 THEN 31
    ELSE IF year % 4 = 0 /\ (year % 100 # 0 \/ year % 400 = 0) THEN 29
    ELSE 28

\* YYYY-MM-DD at the head of s
IsIsoDate(s) ==
    /\ Len(s) >= 10
    /\ \A i \in 1..4 : IsDigit(s[i])
    /\ s[5] = "-" /\ s[8] = "-"
    /\ TwoDigits(s, 6) \in 1..12
    /\ ParseInt(SubSeq(s, 1, 4)) >= 1
    /\ TwoDigits(s, 9) \in 1..DaysInMonth(ParseInt(SubSeq(s, 1, 4)), TwoDigits(s, 6))

\* HH:MM:SS at i
IsIsoTime(s, i) ==
    /\ TwoDigits(s, i) \in 0..23
    /\ s[i + 2] = ":" /\ s[i + 5] = ":"
    /\ TwoDigits(s, i + 3) \in 0..59
    /\ TwoDigits(s, i + 6) \in 0..59

\* +HH:MM or -HH:MM at i
IsIsoOffset(s, i) ==
    /\ s[i] \in {"+", "-"}
    /\ TwoDigits(s, i + 1) \in 0..23
    /\ s[i + 3] = ":"
    /\ TwoDigits(s, i + 4) \in 0..59

\* datetime.fromisoformat on YYYY-MM-DD, YYYY-MM-DDTHH:MM:SS and
\* YYYY-MM-DDTHH:MM:SS+HH:MM (the forms without fractional seconds); any other
\* string raises ValueError
fromisoformat(s) ==
    LET date == [ year |-> ParseInt(SubSeq(s, 1, 4)), month |-> TwoDigits(s, 6),
                  day |-> TwoDigits(s, 9) ]
        time(i) == [ hour |-> TwoDigits(s, i), minute |-> TwoDigits(s, i + 3),
                     second |-> TwoDigits(s, i + 6) ]
        midnight == [ hour |-> 0, minute |-> 0, second |-> 0 ]
        offset == (IF s[20] = "-" THEN 0 - 1 ELSE 1)
                      * (60 * TwoDigits(s, 21) + TwoDigits(s, 24))
    IN  IF Len(s) = 10 /\ IsIsoDate(s)
        THEN [ date |-> date, time |-> midnight, tzinfo |-> NoneValue ]
        ELSE IF Len(s) = 19 /\ IsIsoDate(s) /\ s[11] = "T" /\ IsIsoTime(s, 12)
        THEN [ date |-> date, time |-> time(12), tzinfo |-> NoneValue ]
        ELSE IF Len(s) = 25 /\ IsIsoDate(s) /\ s[11] = "T" /\ IsIsoTime(s, 12)
                /\ IsIsoOffset(s, 20)
        THEN [ date |-> date, time |-> time(12),
               tzinfo |-> [type |-> "timezone", minutes |-> offset] ]
        ELSE Raised("ValueError")

\* data.get(...) on a value that is not a dict
IsDict(data) == "type" \notin DOMAIN data

\* Team.from_api_data with data['name'] where the code has data.get('name', '')
Team_from_api_data_strict(data) ==
    IF ~IsDict(data) THEN Raised("AttributeError")
    ELSE IF "name" \notin DOMAIN data THEN Raised("KeyError")
    ELSE [ name |-> data.name, slug |-> get(data, "slug", "") ]

Team_from_api_data(data) ==
    IF ~IsDict(data) THEN Raised("AttributeError")
    ELSE [ name |-> get(data, "name", ""), slug |-> get(data, "slug", "") ]

ExperimentVersion_from_api_data(data) ==
    IF ~IsDict(data) THEN Raised("AttributeError")
    ELSE [ name |-> get(data, "name", ""),
           version_number |-> get(data, "version_number", 0),
           is_default_version |-> get(data, "is_default_version", FALSE),
           version_description |-> get(data, "version_description", "") ]

\* a list comprehension over from_api_data: the first exception raised leaves it
FirstRaised(items) ==
    items[CHOOSE i \in 1..Len(items) :
              IsRaised(items[i]) /\ \A j \in 1..(i - 1) : ~IsRaised(items[j])]

AnyRaised(items) == \E i \in 1..Len(items) : IsRaised(items[i])

Experiment_from_api_data(data) ==
    IF ~IsDict(data) THEN Raised("AttributeError")
    ELSE LET raw == get(data, "versions", <<>>)
             versions == [i \in 1..Len(raw) |-> ExperimentVersion_from_api_data(raw[i])]
         IN  IF AnyRaised(versions) THEN FirstRaised(versions)
             ELSE [ id |-> get(data, "id", ""),
                    name |-> get(data, "name", <<>>),
                    url |-> get(data, "url", ""),
                    version_number |-> get(data, "version_number", 0),
                    versions |-> versions ]

Participant_from_api_data(data) ==
    IF ~IsDict(data) THEN Raised("AttributeError")
    ELSE [ identifier |-> get(data, "identifier", ""),
           remote_id |-> get(data, "remote_id", "") ]

Message_from_api_data(data) ==
    IF ~IsDict(data) THEN Raised("AttributeError")
    ELSE LET content == get(data, "content", <<>>)
             created_at == fromisoformat(replace_Z(get(data, "created_at", <<>>)))
         IN  IF IsRaised(created_at) THEN created_at
             ELSE [ role |-> get(data, "role", ""),
                    content |-> content,
                    created_at |-> created_at,
                    metadata |-> get(data, "metadata", EmptyDict),
                    tags |-> get(data, "tags", <<>>),
                    attachments |-> get(data, "attachments", <<>>),
                    word_count |-> IF content # <<>> THEN split_len(content) ELSE 0 ]

Session_from_api_data(data) ==
    LET created_at == fromisoformat(replace_Z(get(data, "created_at", <<>>)))
        updated_at == fromisoformat(replace_Z(get(data, "updated_at", <<>>)))
        team == Team_from_api_data(get(data, "team", EmptyDict))
        experiment == Experiment_from_api_data(get(data, "experiment", EmptyDict))
        participant == Participant_from_api_data(get(data, "participant", EmptyDict))
        \* 'messages' in data and data['messages']
        raw == IF "messages" \in DOMAIN data /\ data.messages # NoneValue
               THEN data.messages.items ELSE <<>>
        parsed == [i \in 1..Len(raw) |-> Message_from_api_data(raw[i])]
    IN  IF IsRaised(created_at) THEN created_at
        ELSE IF IsRaised(updated_at) THEN updated_at
        ELSE IF IsRaised(team) THEN team
        ELSE IF IsRaised(experiment) THEN experiment
        ELSE IF IsRaised(participant) THEN participant
        ELSE IF AnyRaised(parsed) THEN FirstRaised(parsed)
        ELSE [ id |-> get(data, "id", ""),
               url |-> get(data, "url", ""),
               team |-> team,
               experiment |-> experiment,
               participant |-> participant,
               created_at |-> created_at,
               updated_at |-> updated_at,
               tags |-> get(data, "tags", <<>>),
               messages |-> IF raw # <<>> THEN ListValue(parsed) ELSE NoneValue ]

-----------------------------------------------------------------------------
(* models.py: what a Session is saved as, and its statistics               *)

\* n in at least width digits
RECURSIVE ZeroPadded(_, _)
ZeroPadded(n, width) ==
    IF width <= 1 THEN IntToStr(n)
    ELSE IF Len(IntToStr(n)) >= width THEN IntToStr(n)
    ELSE <<"0">> \o ZeroPadded(n, width - 1)

Abs(n) == IF n < 0 THEN 0 - n ELSE n

\* datetime.isoformat()
isoformat(dt) ==
    ZeroPadded(dt.date.year, 4) \o <<"-">> \o ZeroPadded(dt.date.month, 2) \o <<"-">>
        \o ZeroPadded(dt.date.day, 2) \o <<"T">> \o ZeroPadded(dt.time.hour, 2) \o <<":">>
        \o ZeroPadded(dt.time.minute, 2) \o <<":">> \o ZeroPadded(dt.time.second, 2)
        \o (IF dt.tzinfo = NoneValue THEN <<>>
            ELSE <<IF dt.tzinfo.minutes < 0 THEN "-" ELSE "+">>
                     \o ZeroPadded(Abs(dt.tzinfo.minutes) \div 60, 2) \o <<":">>
                     \o ZeroPadded(Abs(dt.tzinfo.minutes) % 60, 2))

\* Session.to_dict(): asdict with the datetimes as ISO strings
to_dict(session) ==
    [ session EXCEPT
        !.created_at = isoformat(@),
        !.updated_at = isoformat(@),
        !.messages =
            IF @ = NoneValue THEN NoneValue
            ELSE ListValue([i \in 1..Len(@.items) |->
                               [@.items[i] EXCEPT !.created_at = isoformat(@)]]) ]

\* date.toordinal()
toordinal(date) ==
    LET y == date.year - 1
        before == [m \in 1..12 |->
                      IF m = 1 THEN 0
                      ELSE LET RECURSIVE upto(_)
                               upto(k) == IF k = 0 THEN 0
                                          ELSE DaysInMonth(date.year, k) + upto(k - 1)
                           IN  upto(m - 1)]
    IN  365 * y + y \div 4 - y \div 100 + y \div 400 + before[date.month] + date.day

\* (a - b).total_seconds() of two datetimes that are both naive or both aware
seconds_between(a, b) ==
    (toordinal(a.date) - toordinal(b.date)) * 86400
        + (a.time.hour - b.time.hour) * 3600 + (a.time.minute - b.time.minute) * 60
        + (a.time.second - b.time.second)
        - (IF a.tzinfo = NoneValue THEN 0 ELSE (a.tzinfo.minutes - b.tzinfo.minutes) * 60)

\* comparing or subtracting an offset-naive and an offset-aware datetime raises
mixed_awareness(msgs) ==
    \E i, j \in 1..Len(msgs) :
        msgs[i].created_at.tzinfo = NoneValue /\ msgs[j].created_at.tzinfo # NoneValue

\* min(messages, key=created_at) and max(...): the first of the least, of the greatest
min_created_at(msgs) ==
    msgs[CHOOSE i \in 1..Len(msgs) :
             /\ \A j \in 1..Len(msgs) :
                    seconds_between(msgs[j].created_at, msgs[i].created_at) >= 0
             /\ \A j \in 1..(i - 1) :
                    seconds_between(msgs[j].created_at, msgs[i].created_at) > 0]

max_created_at(msgs) ==
    msgs[CHOOSE i \in 1..Len(msgs) :
             /\ \A j \in 1..Len(msgs) :
                    seconds_between(msgs[j].created_at, msgs[i].created_at) <= 0
             /\ \A j \in 1..(i - 1) :
                    seconds_between(msgs[j].created_at, msgs[i].created_at) < 0]

\* SessionStats.from_session
SessionStats_from_session(session) ==
    IF session.messages = NoneValue
    THEN [ session_id |-> session.id, message_count |-> 0, user_message_count |-> 0,
           assistant_message_count |-> 0, total_user_words |-> 0,
           average_user_words |-> Zero, session_duration_minutes |-> NoneValue ]
    ELSE LET msgs == session.messages.items
             IsUser(m) == m.role = "user"
             IsAssistant(m) == m.role = "assistant"
             user_messages == SelectSeq(msgs, IsUser)
             assistant_messages == SelectSeq(msgs, IsAssistant)
             total_user_words ==
                 SeqSum([i \in 1..Len(user_messages) |-> user_messages[i].word_count])
         IN  IF Len(msgs) > 1 /\ mixed_awareness(msgs) THEN Raised("TypeError")
             ELSE [ session_id |-> session.id,
                    message_count |-> Len(msgs),
                    user_message_count |-> Len(user_messages),
                    assistant_message_count |-> Len(assistant_messages),
                    total_user_words |-> total_user_words,
                    average_user_words |->
                        IF user_messages # <<>>
                        THEN Frac(total_user_words, Len(user_messages)) ELSE Zero,
                    session_duration_minutes |->
                        IF Len(msgs) > 1
                        THEN [ type |-> "float",
                               val |-> Frac(seconds_between(max_created_at(msgs).created_at,
                                                            min_created_at(msgs).created_at),
                                            60) ]
                        ELSE NoneValue ]

-----------------------------------------------------------------------------
(* The normalizer on its own: one raw session record, normalized           *)

\* "2024-05-01T10:00:00Z"
ts_zulu ==
    <<"2", "0", "2", "4", "-", "0", "5", "-", "0", "1", "T", "1", "0", ":",
    "0", "0", ":", "0", "0", "Z">>

\* "2024-05-01T12:30:00+02:00"
ts_offset ==
    <<"2", "0", "2", "4", "-", "0", "5", "-", "0", "1", "T", "1", "2", ":",
    "3", "0", ":", "0", "0", "+", "0", "2", ":", "0", "0">>

\* "2024-05-02T09:15:30"
ts_naive ==
    <<"2", "0", "2", "4", "-", "0", "5", "-", "0", "2", "T", "0", "9", ":",
    "1", "5", ":", "3", "0">>

\* "2024-02-29"
ts_date ==
    <<"2", "0", "2", "4", "-", "0", "2", "-", "2", "9">>

\* "2024-13-01T10:00:00Z"
ts_unparseable ==
    <<"2", "0", "2", "4", "-", "1", "3", "-", "0", "1", "T", "1", "0", ":",
    "0", "0", ":", "0", "0", "Z">>

\* "ECD coach"
ecd_coach ==
    <<"E", "C", "D", " ", "c", "o", "a", "c", "h">>

\* "hi there"
hi_there ==
    <<"h", "i", " ", "t", "h", "e", "r", "e">>

\* a record with every field of the input record shape
FullRecord ==
    [ id |-> "s1",
      url |-> "https://ocs/s1",
      team |-> [name |-> "Team One", slug |-> "t1"],
      experiment |->
          [ id |-> "A", name |-> ecd_coach, url |-> "https://ocs/A", version_number |-> 2,
            versions |-> << [ name |-> "first", version_number |-> 1,
                              is_default_version |-> TRUE,
                              version_description |-> "the first one" ],
                            [ name |-> "second", version_number |-> 2,
                              is_default_version |-> FALSE,
                              version_description |-> "the second one" ] >> ],
      participant |-> [identifier |-> "p1", remote_id |-> "r1"],
      created_at |-> ts_zulu,
      updated_at |-> ts_offset,
      tags |-> <<PlainTag(<<"v", "2">>)>>,
      messages |->
          ListValue(<< [ role |-> "user", content |-> hi_there, created_at |-> ts_naive,
                         metadata |-> [source |-> "web"],
                         tags |-> <<PlainTag(<<"v", "3">>)>>,
                         attachments |-> <<[name |-> "a.png"]>> ],
                       [ role |-> "assistant", content |-> coaching_good,
                         created_at |-> ts_date, metadata |-> EmptyDict, tags |-> <<>>,
                         attachments |-> <<>> ] >>) ]

\* the dict d without the keys it has outside keys
Restrict(d, keys) == [k \in (DOMAIN d) \cap keys |-> d[k]]

TimeKeys == {"created_at", "updated_at"}

OptionalKeys == {"id", "url", "team", "experiment", "participant", "tags", "messages"}

\* the record data with its top-level keys cut to keys and the keys of its
\* nested objects cut to nested; a timestamp is never cut
Cut(data, keys, nested) ==
    LET Nested(d) == Restrict(d, nested \cup TimeKeys)
        NestedList(l) == [i \in 1..Len(l) |-> Nested(l[i])]
        experiment == Nested(data.experiment)
        top == [ data EXCEPT
                   !.team = Nested(@),
                   !.participant = Nested(@),
                   !.experiment =
                       IF "versions" \in DOMAIN experiment
                       THEN [experiment EXCEPT !.versions = NestedList(@)]
                       ELSE experiment,
                   !.messages = ListValue(NestedList(@.items)) ]
    IN  Restrict(top, keys \cup TimeKeys)

\* records with valid timestamps that lack optional fields, at the top and
\* nested: nested gives the keys the nested objects keep, keys the top-level ones
PartialRecords ==
    LET NestedKeeps ==
            { {"name", "slug", "id", "url", "version_number", "versions", "identifier",
               "remote_id", "is_default_version", "version_description", "role",
               "content", "metadata", "tags", "attachments"},
              {"name", "version_number", "versions", "identifier", "content", "tags"},
              {"slug", "id", "url", "versions", "remote_id", "is_default_version",
               "version_description", "role", "metadata", "attachments"},
              {} }
    IN  { Cut(FullRecord, keys, nested) :
              keys \in SUBSET OptionalKeys, nested \in NestedKeeps }
        \cup { [Cut(FullRecord, keys \cup {"messages"}, nested) EXCEPT
                   !.messages = ListValue(<<>>)] :
                   keys \in SUBSET OptionalKeys, nested \in NestedKeeps }

InitNormalize ==
    /\ pc = "raw"
    /\ operation = "none"
    /\ records \in { <<data>> : data \in PartialRecords }
    /\ cursor = 0
    /\ result = <<>>
    /\ limit = 0
    /\ word_counts = <<>>
    /\ medians = <<>>
    /\ NoDashboard
    /\ NoPagination

\* Session.from_api_data(data)
Normalize ==
    /\ pc = "raw"
    /\ result' = <<Session_from_api_data(records[1])>>
    /\ cursor' = 1
    /\ pc' = "normalized"
    /\ UNCHANGED << operation, records, limit, median_vars, paginate_vars, dashboard_vars >>

NextNormalize == Normalize

SpecNormalize == InitNormalize /\ [][NextNormalize]_vars

-----------------------------------------------------------------------------
(* The batches: a page of downloaded sessions is parsed and saved          *)
(* (run_dashboard.py), the session files are loaded and parsed             *)
(* (data_utils.py, DashboardGenerator._fetch_all_data).  One action is one *)
(* pass of a loop body, or what follows the loop.                          *)

MaxRecords == 3
MaxLimit == 2

\* the records of a page: some the normalizer rejects (no created_at, "team":
\* null and no id, an unparseable created_at, a message without created_at) and
\* some it accepts (among them a second record of the session s1, and a session
\* with a UTC and a naive message timestamp)
RecordPool ==
    LET no_created_at == [id |-> "b1", updated_at |-> ts_naive, tags |-> <<>>]
        malformed_team ==
            [created_at |-> ts_zulu, updated_at |-> ts_zulu, team |-> NoneValue]
        timestamps_only == [id |-> "s2", created_at |-> ts_date, updated_at |-> ts_naive]
        unparseable_created_at ==
            [id |-> "b2", created_at |-> ts_unparseable, updated_at |-> ts_zulu]
        mixed_timestamps ==
            [ id |-> "s3", created_at |-> ts_zulu, updated_at |-> ts_zulu,
              messages |-> ListValue(<< [role |-> "user", content |-> hi_there,
                                         created_at |-> ts_zulu],
                                        [role |-> "assistant", created_at |-> ts_naive] >>) ]
        message_without_created_at ==
            [ id |-> "b4", created_at |-> ts_zulu, updated_at |-> ts_zulu,
              messages |-> ListValue(<<[role |-> "user", content |-> hi_there]>>) ]
        s1_again ==
            [ id |-> "s1", created_at |-> ts_offset, updated_at |-> ts_offset,
              experiment |-> [id |-> "B"] ]
    IN  << no_created_at, FullRecord, malformed_team, timestamps_only,
           unparseable_created_at, mixed_timestamps, message_without_created_at, s1_again >>

\* a session file: the JSON text json.dump wrote for a value, or a text that
\* is no JSON (a truncated file)
JsonFile(name, value) == [name |-> name, text |-> [type |-> "json", value |-> value]]

TruncatedFile(name) == [name |-> name, text |-> [type |-> "truncated"]]

\* json.load(f)
json_load(file) ==
    IF file.text.type = "json" THEN file.text.value ELSE Raised("JSONDecodeError")

\* the files of a sessions directory: one that save_to_file wrote, files with
\* the records above, a truncated one
FilePool ==
    LET names == << "session_b1.json", "session_s1_raw.json", "session_b3.json",
                    "session_s2.json", "session_b2.json", "session_s3.json",
                    "session_b4.json", "session_s1_again.json" >>
    IN  << TruncatedFile("session_t1.json"),
           JsonFile("session_s1.json", to_dict(Session_from_api_data(FullRecord))) >>
        \o [i \in 1..Len(RecordPool) |-> JsonFile(names[i], RecordPool[i])]

EmptyResult ==
    [ files |-> <<>>, page_saved |-> 0, page_ecd |-> 0, saved_count |-> 0, ecd_count |-> 0,
      sessions_processed |-> 0, raw_sessions |-> <<>>, sessions |-> <<>>,
      session_stats |-> <<>>, warnings |-> <<>>, error |-> "" ]

\* print(f"... Warning: ... {what}: {e}")
Warn(r, what, e) == [r EXCEPT !.warnings = Append(@, [about |-> what, error |-> e.exception])]

InitBatch ==
    /\ \/ /\ operation = "download_sessions"
          /\ pc = "page"
          /\ records \in SubSeqsOf(RecordPool, MaxRecords)
          /\ limit \in 0..MaxLimit
       \/ /\ operation = "_fetch_all_data"
          /\ pc = "load"
          /\ records \in SubSeqsOf(FilePool, MaxRecords)
          /\ limit = 0
    /\ cursor = 0
    /\ result = EmptyResult
    /\ word_counts = <<>>
    /\ medians = <<>>
    /\ NoDashboard
    /\ NoPagination

\* 'ecd' in session.experiment.name.lower()
is_ecd(session) == Contains(lower(session.experiment.name), <<"e", "c", "d">>)

\* after a session is parsed: save it, count it, stop at the limit
saved(r, session) ==
    [ r EXCEPT !.files = dict_set(@, session.id, to_dict(session)),
               !.page_saved = @ + 1,
               !.page_ecd = IF is_ecd(session) THEN @ + 1 ELSE @,
               !.sessions_processed = @ + 1 ]

\* the body of the loop of process_sessions_page with no try around it
process_sessions_page_unguarded ==
    /\ operation = "download_sessions"
    /\ pc = "page"
    /\ cursor < Len(records)
    /\ LET session_data == records[cursor + 1]
           session == Session_from_api_data(session_data)
       IN  IF IsRaised(session)
           THEN /\ result' = [result EXCEPT !.error = session.exception]
                /\ pc' = "aborted"
           ELSE /\ result' = saved(result, session)
                /\ pc' = IF limit # 0 /\ result'.sessions_processed >= limit
                         THEN "page_end" ELSE "page"
    /\ cursor' = cursor + 1
    /\ UNCHANGED << operation, records, limit, median_vars, paginate_vars, dashboard_vars >>

\* download_sessions.process_sessions_page: one pass of the loop body
process_sessions_page ==
    /\ operation = "download_sessions"
    /\ pc = "page"
    /\ cursor < Len(records)
    /\ LET session_data == records[cursor + 1]
           session == Session_from_api_data(session_data)
       IN  IF IsRaised(session)
           THEN /\ result' = Warn(result, get(session_data, "id", "unknown"), session)
                /\ pc' = "page"
           ELSE /\ result' = saved(result, session)
                /\ pc' = IF limit # 0 /\ result'.sessions_processed >= limit
                         THEN "page_end" ELSE "page"
    /\ cursor' = cursor + 1
    /\ UNCHANGED << operation, records, limit, median_vars, paginate_vars, dashboard_vars >>

\* download_sessions.process_sessions_page: after the loop, or after its break
process_sessions_page_return ==
    /\ operation = "download_sessions"
    /\ pc = "page_end" \/ (pc = "page" /\ cursor = Len(records))
    /\ result' = [result EXCEPT !.saved_count = @ + result.page_saved,
                                !.ecd_count = @ + result.page_ecd]
    /\ pc' = "done"
    /\ UNCHANGED << operation, records, cursor, limit, median_vars, paginate_vars, dashboard_vars >>

\* load_sessions_from_directory: one pass of the loop over the session files
load_sessions_from_directory ==
    /\ operation = "_fetch_all_data"
    /\ pc = "load"
    /\ cursor < Len(records)
    /\ LET json_file == records[cursor + 1]
           session_data == json_load(json_file)
       IN  result' = IF IsRaised(session_data)
                     THEN Warn(result, json_file.name, session_data)
                     ELSE [result EXCEPT !.raw_sessions = Append(@, session_data)]
    /\ cursor' = cursor + 1
    /\ UNCHANGED << pc, operation, records, limit, median_vars, paginate_vars, dashboard_vars >>

\* _fetch_all_data once load_sessions_with_messages has returned (there is no
\* messages directory): raise when there is no session, else build the
\* MetricsCalculator on the raw records
fetch_all_data_loaded ==
    /\ operation = "_fetch_all_data"
    /\ pc = "load"
    /\ cursor = Len(records)
    /\ IF result.raw_sessions = <<>>
       THEN /\ result' = [result EXCEPT !.error = "No session data found"]
            /\ pc' = "aborted"
            /\ UNCHANGED << cursor, sessions >>
       ELSE /\ sessions' = result.raw_sessions
            /\ cursor' = 0
            /\ pc' = "parse"
            /\ UNCHANGED result
    /\ UNCHANGED << operation, records, limit, median_vars, paginate_vars, messages,
                    session_messages_map, all_metrics, calls, page_vars, client_vars,
                    metrics, lastOp >>

\* _fetch_all_data: one pass of the loop that converts to Session objects
fetch_all_data_parse ==
    /\ operation = "_fetch_all_data"
    /\ pc = "parse"
    /\ cursor < Len(result.raw_sessions)
    /\ LET session_data == result.raw_sessions[cursor + 1]
           session == Session_from_api_data(session_data)
       IN  result' = IF IsRaised(session)
                     THEN Warn(result, get(session_data, "id", "unknown"), session)
                     ELSE [result EXCEPT !.sessions = Append(@, session)]
    /\ cursor' = cursor + 1
    /\ UNCHANGED << pc, operation, records, limit, median_vars, paginate_vars, dashboard_vars >>

\* _fetch_all_data: the statistics of every session, and the return
fetch_all_data_return ==
    /\ operation = "_fetch_all_data"
    /\ pc = "parse"
    /\ cursor = Len(result.raw_sessions)
    /\ LET session_stats == [i \in 1..Len(result.sessions) |->
                                SessionStats_from_session(result.sessions[i])]
       IN  IF AnyRaised(session_stats)
           THEN /\ result' = [result EXCEPT !.error = FirstRaised(session_stats).exception]
                /\ pc' = "aborted"
           ELSE /\ result' = [result EXCEPT !.session_stats = session_stats]
                /\ pc' = "done"
    /\ UNCHANGED << operation, records, cursor, limit, median_vars, paginate_vars, dashboard_vars >>

\* s.get('experiment', {}).get('id') and s.get('team', {}).get('slug') on a raw
\* record whose nested value is null: 'NoneType' object has no attribute 'get'
has_null_nested(ss) ==
    \E i \in 1..Len(ss) :
        \/ ~IsDict(get(ss[i], "experiment", EmptyDict))
        \/ ~IsDict(get(ss[i], "team", EmptyDict))

\* generate_dashboard once _fetch_all_data has returned: the renderers call
\* calculate_all_metrics on the MetricsCalculator that was built on the raw
\* records, and embed its sessions in the page
generate_dashboard_render ==
    /\ operation = "_fetch_all_data"
    /\ pc = "done"
    /\ lastOp' = "generate_dashboard"
    /\ UNCHANGED << sessions, messages, session_messages_map, client_vars, batch_vars,
                    median_vars, paginate_vars >>
    /\ LET map == session_messages_map
           bundle == IF has_null_nested(sessions)
                     THEN Raised("AttributeError")
                     ELSE calculate_all_metrics(sessions, map)
       IN  /\ all_metrics' = bundle
           /\ IF IsRaised(bundle)
              THEN /\ pc' = "failed"
                   /\ calls' = calls + 1
                   /\ UNCHANGED << page_vars, metrics >>
              ELSE /\ pc' = "html"
                   /\ calls' = calls + 3
                   /\ allSessionsData' = get_sessions_data_json(sessions, map)
                   /\ allMessagesData' = get_messages_data_json(messages)
                   /\ experimentVersionsData' = get_experiment_versions_json(bundle)
                   /\ checkboxes' = experiment_options(bundle)
                   /\ metrics' = metrics_summary(bundle)

NextBatch ==
    \/ process_sessions_page
    \/ process_sessions_page_return
    \/ load_sessions_from_directory
    \/ fetch_all_data_loaded
    \/ fetch_all_data_parse
    \/ fetch_all_data_return
    \/ generate_dashboard_render

SpecBatch == InitBatch /\ [][NextBatch]_vars

-----------------------------------------------------------------------------
(* ocs_client.py: the API client, and download_sessions on top of it       *)
(* (run_dashboard.py).  One action is one HTTP exchange of _make_request,  *)
(* or one pass of the loop of _paginate / _paginate_with_callback on the   *)
(* response _make_request returned, the callback included.                 *)

\* constants.PAGE_SIZE
PAGE_SIZE == 1

\* how many nested calls of _make_request the interpreter's stack allows
RecursionLimit == 3

MaxPages == 2
MaxPageLen == 2
MaxMaxPages == 2
MaxFetches == 3

\* the k-th record the server holds: the records of the pool, those the
\* normalizer accepts first
Dataset(k) ==
    LET order == <<2, 4, 6, 1, 8, 5, 7, 3>>
    IN  RecordPool[order[((k - 1) % Len(order)) + 1]]

\* the pages of a server that puts lens[i] records on its i-th page
PagesOf(lens) ==
    [i \in 1..Len(lens) |->
        [j \in 1..lens[i] |-> Dataset(SeqSum(SubSeq(lens, 1, i - 1)) + j)]]

\* the servers: one that answers with {'results', 'next'} objects (a page may
\* be empty), one that answers with a bare list, one that answers with a
\* single object
Servers ==
    { [format |-> "object", pages |-> PagesOf(lens)] :
          lens \in UNION { [1..n -> 0..MaxPageLen] : n \in 1..MaxPages } }
    \cup { [format |-> "list", pages |-> PagesOf(lens)] : lens \in [1..1 -> 0..MaxPageLen] }
    \cup { [format |-> "single", pages |-> <<<<Dataset(1)>>>>] }

\* the 'next' link of page c: the URL of the following page, None on the last
next_link(srv, c) ==
    IF c < Len(srv.pages)
    THEN [ path |-> "/sessions",
           query |-> << [k |-> "cursor", v |-> c + 1], [k |-> "page_size", v |-> PAGE_SIZE] >> ]
    ELSE NoneValue

\* response.json() of the server's answer to GET endpoint?params: the page
\* the cursor names, the first page when no cursor is sent
response_json(srv, params) ==
    LET c == get(params, "cursor", 1)
    IN  IF srv.format = "object"
        THEN [results |-> srv.pages[c], next |-> next_link(srv, c)]
        ELSE IF srv.format = "list" THEN ListValue(srv.pages[1])
        ELSE srv.pages[1][1]

\* {k: v[0] for k, v in parse_qs(urlparse(next_url).query).items()}
RECURSIVE parse_qs(_)
parse_qs(query) ==
    IF query = <<>> THEN EmptyDict
    ELSE LET first == Head(query)
             rest == parse_qs(Tail(query))
         IN  [k \in {first.k} \cup DOMAIN rest |-> IF k = first.k THEN first.v ELSE rest[k]]

\* the params of the request of this pass of the loop
request_params(url) ==
    IF url = NoneValue THEN [page_size |-> PAGE_SIZE] ELSE parse_qs(url.query)

\* the headers of a 429 answer: no Retry-After, Retry-After in seconds,
\* Retry-After as an HTTP date
RetryAfterHeaders ==
    << EmptyDict,
       [retry_after |-> <<"5">>],
       [retry_after |-> <<"W", "e", "d", ",", " ", "0", "4", " ", "N", "o", "v", " ",
                          "2", "0", "2", "6", " ", "1", "5", ":", "0", "0", ":", "0", "0",
                          " ", "G", "M", "T">>] >>

\* int(response.headers.get('Retry-After', 60))
retry_after(headers) ==
    IF "retry_after" \notin DOMAIN headers THEN [seconds |-> 60]
    ELSE LET text == headers.retry_after
         IN  IF text # <<>> /\ \A i \in 1..Len(text) : IsDigit(text[i])
             THEN [seconds |-> ParseInt(text)]
             ELSE Raised("ValueError")

\* the passes of the loop after the first MaxFetches are folded into one: they
\* find the state of the pass MaxFetches + 1 and leave it as it is
folded == page_num > MaxFetches

\* an exception leaves the call
raise(e) ==
    /\ pc' = "raised"
    /\ result' = [result EXCEPT !.error = e]
    /\ UNCHANGED << depth, response, fetched >>

\* _make_request: one HTTP exchange.  The server answers 200 with the page,
\* 500, or 429 with one of the headers; on 429 the call sleeps and calls itself
make_request ==
    /\ operation \in {"_paginate", "_paginate_with_callback", "download_sessions"}
    /\ pc = "request"
    /\ \/ /\ pc' = "response"
          /\ response' = response_json(server, request_params(next_url))
          /\ fetched' = IF folded THEN fetched ELSE Append(fetched, response')
          /\ UNCHANGED << result, depth >>
       \/ raise("OCSClientError")
       \/ \E h \in 1..Len(RetryAfterHeaders) :
              LET wait == retry_after(RetryAfterHeaders[h])
              IN  IF IsRaised(wait)
                  THEN raise(wait.exception)
                  ELSE IF depth + 1 >= RecursionLimit
                       THEN raise("RecursionError")
                       ELSE /\ depth' = depth + 1
                            /\ UNCHANGED << pc, result, response, fetched >>
    /\ UNCHANGED << operation, records, cursor, limit, server, max_pages, page_num,
                    next_url, all_results, total_processed, delivered, median_vars,
                    dashboard_vars >>

\* the three response formats: results, next_url and has_next of a response
page_of(data) ==
    IF IsDict(data) /\ "results" \in DOMAIN data
    THEN LET next == get(data, "next", NoneValue)
         IN  [results |-> data.results, next_url |-> next, has_next |-> next # NoneValue]
    ELSE IF ~IsDict(data) /\ data.type = "list"
    THEN [ results |-> data.items, next_url |-> NoneValue,
           has_next |-> Len(data.items) = PAGE_SIZE ]
    ELSE [results |-> <<data>>, next_url |-> NoneValue, has_next |-> FALSE]

\* the break of the loop one page too late
is_last_page_late(page, num, pages_limit) ==
    \/ ~page.has_next
    \/ Len(page.results) = 0
    \/ (pages_limit # 0 /\ num > pages_limit)

\* if not has_next or len(results) == 0 or (max_pages and page_num >= max_pages)
is_last_page(page, num, pages_limit) ==
    \/ ~page.has_next
    \/ Len(page.results) = 0
    \/ (pages_limit # 0 /\ num >= pages_limit)

\* the end of a pass of the loop: break and return, or go on to the next page
end_of_pass(page) ==
    /\ next_url' = page.next_url
    /\ IF is_last_page(page, page_num, max_pages)
       THEN pc' = "returned" /\ UNCHANGED << page_num, depth >>
       ELSE /\ pc' = "request"
            /\ page_num' = IF folded THEN page_num ELSE page_num + 1
            /\ depth' = 0
    /\ UNCHANGED << operation, records, cursor, limit, server, max_pages,
                    response, fetched, median_vars, dashboard_vars >>

\* _paginate: one pass of the loop, after _make_request has returned
paginate ==
    /\ operation = "_paginate"
    /\ pc = "response"
    /\ LET page == page_of(response)
       IN  /\ all_results' = IF folded THEN all_results ELSE all_results \o page.results
           /\ end_of_pass(page)
    /\ UNCHANGED << result, total_processed, delivered >>

\* the loop of process_sessions_page on the records of one page
RECURSIVE process_sessions_loop(_, _, _)
process_sessions_loop(r, sessions_data, lim) ==
    IF sessions_data = <<>> THEN r
    ELSE LET session_data == Head(sessions_data)
             session == Session_from_api_data(session_data)
         IN  IF IsRaised(session)
             THEN process_sessions_loop(Warn(r, get(session_data, "id", "unknown"), session),
                                        Tail(sessions_data), lim)
             ELSE LET after == saved(r, session)
                  IN  IF lim # 0 /\ after.sessions_processed >= lim
                      THEN after
                      ELSE process_sessions_loop(after, Tail(sessions_data), lim)

\* download_sessions.process_sessions_page(sessions_data, page, total_processed):
\* the counters after the call; it returns page_saved
process_sessions_page_call(r, sessions_data, lim) ==
    LET after == process_sessions_loop([r EXCEPT !.page_saved = 0, !.page_ecd = 0],
                                       sessions_data, lim)
    IN  [after EXCEPT !.saved_count = @ + after.page_saved,
                      !.ecd_count = @ + after.page_ecd]

\* _paginate_with_callback: one pass of the loop, after _make_request has
\* returned.  The callback is process_sessions_page for download_sessions
\* (get_sessions_streaming with no experiment_ids hands the page on as it
\* is), else a callback that counts the records it is given
paginate_with_callback ==
    /\ operation \in {"_paginate_with_callback", "download_sessions"}
    /\ pc = "response"
    /\ LET page == page_of(response)
       IN  /\ IF folded
              THEN UNCHANGED << delivered, result, total_processed >>
              ELSE /\ delivered' = Append(delivered, page.results)
                   /\ IF operation = "download_sessions"
                      THEN /\ result' = process_sessions_page_call(result, page.results,
                                                                    limit)
                           /\ total_processed' = total_processed + result'.page_saved
                      ELSE /\ total_processed' = total_processed + Len(page.results)
                           /\ UNCHANGED result
           /\ end_of_pass(page)
    /\ UNCHANGED all_results

\* max_pages = max(1, (limit + constants.PAGE_SIZE - 1) // constants.PAGE_SIZE),
\* None when there is no limit
download_max_pages(lim) ==
    IF lim = 0 THEN 0
    ELSE LET pages_needed == (lim + PAGE_SIZE - 1) \div PAGE_SIZE
         IN  IF pages_needed > 1 THEN pages_needed ELSE 1

\* the call starts: _paginate or _paginate_with_callback with some max_pages,
\* or download_sessions with some limit
InitPaginate ==
    /\ \/ /\ operation \in {"_paginate", "_paginate_with_callback"}
          /\ max_pages \in 0..MaxMaxPages
          /\ limit = 0
       \/ /\ operation = "download_sessions"
          /\ limit \in 0..MaxLimit
          /\ max_pages = download_max_pages(limit)
    /\ server \in Servers
    /\ pc = "request"
    /\ page_num = 1
    /\ next_url = NoneValue
    /\ all_results = <<>>
    /\ total_processed = 0
    /\ depth = 0
    /\ response = NoneValue
    /\ fetched = <<>>
    /\ delivered = <<>>
    /\ records = <<>>
    /\ cursor = 0
    /\ result = EmptyResult
    /\ word_counts = <<>>
    /\ medians = <<>>
    /\ NoDashboard

NextPaginate ==
    \/ make_request
    \/ paginate
    \/ paginate_with_callback

SpecPaginate == InitPaginate /\ [][NextPaginate]_vars

\* the calls of _paginate and _paginate_with_callback themselves
InitPaginateCalls == InitPaginate /\ operation # "download_sessions"

\* the client is one synchronous thread: a step that can be taken is taken
SpecPaginateFair == InitPaginateCalls /\ [][NextPaginate]_vars /\ WF_vars(NextPaginate)

-----------------------------------------------------------------------------
(* What the specification says, in its own terms                           *)

\* the number of whitespace-separated tokens of a text
RECURSIVE TokensFrom(_, _)
TokensFrom(text, inToken) ==
    IF text = <<>> THEN 0
    ELSE IF IsSpace(Head(text)) THEN TokensFrom(Tail(text), FALSE)
    ELSE (IF inToken THEN 0 ELSE 1) + TokensFrom(Tail(text), TRUE)

TokenCount(content) == TokensFrom(content, FALSE)

\* a tag of the form v<digits>
IsVDigits(tag) ==
    /\ tag.type = "str"
    /\ Len(tag.val) >= 2
    /\ tag.val[1] = "v"
    /\ \A k \in 2..Len(tag.val) : IsDigit(tag.val[k])

\* the number a string of decimal digits writes
DecimalValue(ds) ==
    SeqSum([k \in 1..Len(ds) |-> DigitVal(ds[k]) * 10 ^ (Len(ds) - k)])

\* the bundles that are the session's: those that carry its id
OwnBundles(session, bundles) ==
    { b \in 1..Len(bundles) :
        /\ get(session, "id", "") # ""
        /\ get(bundles[b], "id", "") = get(session, "id", "") }

\* the messages of the session's bundle
BundleMessages(session, bundles) ==
    IF OwnBundles(session, bundles) = {} THEN <<>>
    ELSE get(bundles[MaxOf(OwnBundles(session, bundles))], "messages", <<>>)

\* the resolved version of a session: the first v<digits> tag of its bundle, in
\* bundle order, else the nominal version, 1 when the session names none
ResolvedVersion(session, bundles) ==
    LET msgs == BundleMessages(session, bundles)
        tags == Flatten([m \in 1..Len(msgs) |-> get(msgs[m], "tags", <<>>)])
        hits == { k \in 1..Len(tags) : IsVDigits(tags[k]) }
        first == CHOOSE k \in hits : \A h \in hits : k <= h
    IN  IF hits # {} THEN DecimalValue(Tail(tags[first].val))
        ELSE IF "experiment" \in DOMAIN session
                /\ "version_number" \in DOMAIN session.experiment
        THEN session.experiment.version_number
        ELSE 1

\* the elements of seq at the positions I, in order
SubSeqAt(seq, I) == [k \in 1..Cardinality(I) |-> seq[KthOf(I, k)]]

\* the versions the page knows of an experiment
KnownVersions(e) ==
    IF e \in DOMAIN experimentVersionsData THEN known_versions(experimentVersionsData, e)
    ELSE {}

\* the sessions that carry at least one tag with "coaching" in its name
SessionsWithCoaching(ss) ==
    Cardinality({ i \in 1..Len(ss) :
        \E j \in 1..Len(ss[i].tags) : Contains(lower(tagName(ss[i].tags[j])), coaching) })

\* C1: once the page is loaded, a session is in the filtered set exactly when
\* its experiment is selected and its resolved version is among the versions
\* selected for that experiment.
C1_FilterIffSelected ==
    pc = "ready" =>
        filteredSessions =
            SubSeqAt(allSessionsData,
                     { i \in 1..Len(sessions) :
                         LET e == experiment_id(sessions[i])
                         IN  /\ e \in selectedExperiments
                             /\ e \in DOMAIN selectedVersions
                             /\ ResolvedVersion(sessions[i], messages) \in selectedVersions[e] })

\* C2: a step that newly selects an experiment leaves every known version of
\* that experiment in its selected version set.
C2_NewlySelectedAllVersions ==
    [][pc = "ready" =>
         \A e \in selectedExperiments' \ selectedExperiments :
             KnownVersions(e) # {} =>
                 /\ e \in DOMAIN selectedVersions'
                 /\ KnownVersions(e) \subseteq selectedVersions'[e]]_vars

\* C3: a step that deselects an experiment removes its entry from the selected
\* versions, and a later step that selects it again gives it all its known
\* versions.
C3_DeselectForgets ==
    [][pc = "ready" =>
         /\ \A e \in selectedExperiments \ selectedExperiments' :
                e \notin DOMAIN selectedVersions'
         /\ \A e \in (selectedExperiments' \ selectedExperiments) \cap deselected :
                KnownVersions(e) # {} =>
                    /\ e \in DOMAIN selectedVersions'
                    /\ selectedVersions'[e] = KnownVersions(e)]_vars

\* what the cards show when every count and percentage is 0
ZeroMetrics ==
    [ totalSessions |-> 0, experimentsCount |-> 0, teamsCount |-> 0,
      sessionsWithMessages |-> 0, totalMessages |-> 0,
      medianUserWords |-> Zero, medianBotWords |-> Zero, annotatedSessions |-> 0,
      appreciationCount |-> 0, dissatisfactionCount |-> 0,
      appreciationPercentage |-> Zero, dissatisfactionPercentage |-> Zero,
      coachingAnnotations |-> 0, botPerformanceGood |-> 0 ]

\* C4: while no experiment is selected the filtered session and message sets
\* are empty and every displayed count and percentage is 0.
C4_EmptySelection ==
    pc = "ready" /\ selectedExperiments = {} =>
        /\ filteredSessions = <<>>
        /\ filteredMessages = <<>>
        /\ metrics = ZeroMetrics

\* a page with sessions and experiments whose selection was cleared after
\* something had been selected
C4_Witness ==
    /\ pc = "ready"
    /\ lastOp = "clearAllExperiments"
    /\ deselected # {}
    /\ selectedExperiments = {}
    /\ Len(allSessionsData) > 1
    /\ Len(allMessagesData) > 0
    /\ metrics = ZeroMetrics

\* every experiment of the page is selected, with all its known versions
EverythingSelected ==
    /\ selectedExperiments # {}
    /\ selectedExperiments = { checkboxes[i] : i \in 1..Len(checkboxes) }
    /\ \A e \in selectedExperiments :
           e \in DOMAIN selectedVersions /\ selectedVersions[e] = KnownVersions(e)

\* C5: the metrics the page shows after a filter change are, field for field,
\* what the engine computes from scratch on the filtered subset; with every
\* experiment and version selected they are the initial full-data metrics.
C5_ClientEqualsEngine ==
    pc = "ready" =>
        /\ metrics =
               metrics_summary(calculate_all_metrics(
                   filteredSessions, build_session_messages_map(filteredMessages)))
        /\ EverythingSelected => metrics = metrics_summary(all_metrics)

C7_ResolvedVersion ==
    \A i \in 1..Len(allSessionsData) :
        allSessionsData[i].experiment.version_number =
            ResolvedVersion(sessions[i], messages)

\* versions were resolved for a session whose bundle's first version tag is
\* not its first tag and differs from its nominal version, and for a session
\* without nominal version
C7_Witness ==
    /\ pc = "engine"
    /\ \E i \in 1..Len(allSessionsData) :
           LET msgs == BundleMessages(sessions[i], messages)
               tags == Flatten([m \in 1..Len(msgs) |-> get(msgs[m], "tags", <<>>)])
           IN  /\ tags # <<>>
               /\ ~IsVDigits(tags[1])
               /\ \E k \in 1..Len(tags) : IsVDigits(tags[k])
               /\ allSessionsData[i].experiment.version_number #
                      get(get(sessions[i], "experiment", EmptyDict), "version_number", 1)
    /\ \E i \in 1..Len(allSessionsData) :
           /\ "experiment" \notin DOMAIN sessions[i]
           /\ allSessionsData[i].experiment.version_number = 1

\* C8: the coaching annotations the cards show, initially and after every
\* filter change, are the number of sessions with at least one coaching tag.
C8_CoachingCountsSessions ==
    /\ pc = "html" => metrics.coachingAnnotations = SessionsWithCoaching(allSessionsData)
    /\ pc = "ready" => metrics.coachingAnnotations = SessionsWithCoaching(filteredSessions)

\* C9: the word count of a message is the number of whitespace-separated
\* tokens of its content, 0 when it has none, in the engine and in the page.
C9_WordCount ==
    /\ \A b \in 1..Len(session_messages_map) :
           LET msgs == get(session_messages_map[b].v, "messages", <<>>)
           IN  \A m \in 1..Len(msgs) :
                   word_count(msgs[m]) = TokenCount(get(msgs[m], "content", <<>>))
    /\ pc = "ready" =>
           \A b \in 1..Len(filteredMessages) :
               \A m \in 1..Len(filteredMessages[b].messages) :
                   wordCount(filteredMessages[b].messages[m]) =
                       TokenCount(get(filteredMessages[b].messages[m], "content", <<>>))

\* C10: total_messages is the sum, over the sessions given to the engine, of the
\* number of messages of each session's bundle.
C10_TotalMessages ==
    calls > 0 /\ ~IsRaised(all_metrics) =>
        all_metrics.message_stats.total_messages =
            SeqSum([i \in 1..Len(sessions) |-> Len(BundleMessages(sessions[i], messages))])

\* the messages the engine has, bundle after bundle
EngineMessages ==
    Flatten([b \in 1..Len(session_messages_map) |->
                get(session_messages_map[b].v, "messages", <<>>)])

\* how many patterns of a set match the lower-cased content of a message
MatchCount(patterns, message) ==
    Cardinality({ p \in 1..Len(patterns) :
                    SearchWord(patterns[p], lower(get(message, "content", <<>>))) })

\* the user messages among EngineMessages that at least one pattern matches
UserMatches(patterns) ==
    { m \in 1..Len(EngineMessages) :
        /\ get(EngineMessages[m], "role", "") = "user"
        /\ MatchCount(patterns, EngineMessages[m]) >= 1 }

\* C11: every user message that at least one appreciation pattern matches
\* adds exactly 1 to appreciation_count, every user message that at least one
\* dissatisfaction pattern matches adds exactly 1 to dissatisfaction_count,
\* independently; other messages add nothing; without user messages both
\* percentages are 0.
C11_SentimentPerMessage ==
    calls > 0 /\ ~IsRaised(all_metrics) =>
        LET stats == all_metrics.sentiment_stats
        IN  /\ stats.appreciation_count = Cardinality(UserMatches(appreciation_patterns))
            /\ stats.dissatisfaction_count = Cardinality(UserMatches(dissatisfaction_patterns))
            /\ (\A m \in 1..Len(EngineMessages) :
                   get(EngineMessages[m], "role", "") # "user")
               => /\ stats.appreciation_percentage = Zero
                  /\ stats.dissatisfaction_percentage = Zero

\* the engine returned a bundle for data with a user message that several
\* patterns of both sets match, and a non-user message that a pattern matches
C11_Witness ==
    /\ calls > 0
    /\ ~IsRaised(all_metrics)
    /\ \E m \in UserMatches(appreciation_patterns) \cap UserMatches(dissatisfaction_patterns) :
           MatchCount(appreciation_patterns, EngineMessages[m]) >= 2
    /\ \E m \in 1..Len(EngineMessages) :
           /\ get(EngineMessages[m], "role", "") # "user"
           /\ MatchCount(dissatisfaction_patterns, EngineMessages[m]) >= 1
    /\ all_metrics.sentiment_stats.appreciation_count = 1
    /\ all_metrics.sentiment_stats.dissatisfaction_count = 1

\* the inflected forms the dissatisfaction set names
inflected_forms ==
    << <<"f", "r", "u", "s", "t", "r", "a", "t", "e">>,
       <<"f", "r", "u", "s", "t", "r", "a", "t", "i", "o", "n">>,
       <<"c", "o", "n", "f", "u", "s", "e">>,
       <<"c", "o", "n", "f", "u", "s", "i", "o", "n">> >>

\* C12: every user message that contains a word of the dissatisfaction set,
\* the inflected forms frustrate, frustration, confuse and confusion included,
\* is counted in dissatisfaction_count.
C12_InflectedForms ==
    calls > 0 /\ ~IsRaised(all_metrics) =>
        all_metrics.sentiment_stats.dissatisfaction_count >=
            Cardinality(UserMatches(dissatisfaction_patterns \o inflected_forms))

\* C13: on normalized sessions whose tags are plain strings or {name} objects
\* calculate_all_metrics returns a bundle: no call ends with an exception.
C13_EngineNeverRaises ==
    calls > 0 => ~IsRaised(all_metrics)

\* v or V followed by digits only
IsVersionMarker(name) ==
    /\ Len(name) >= 2
    /\ name[1] \in {"v", "V"}
    /\ \A k \in 2..Len(name) : IsDigit(name[k])

\* the tag names of the engine's sessions, one entry per occurrence
SessionTagNames ==
    LET tags == Flatten([i \in 1..Len(sessions) |-> get(sessions[i], "tags", <<>>)])
    IN  [k \in 1..Len(tags) |-> tagName(tags[k])]

\* C14: no version marker is a key of annotation_counts; a session counts in
\* sessions_with_tags as soon as it has a tag, version markers included; every
\* other non-empty tag name is a key and its count is its number of occurrences.
C14_VersionTagsNotAnnotations ==
    calls > 0 /\ ~IsRaised(all_metrics) =>
        LET stats == all_metrics.annotation_stats
            names == { SessionTagNames[k] : k \in 1..Len(SessionTagNames) }
        IN  /\ \A n \in DOMAIN stats.annotation_counts : ~IsVersionMarker(n)
            /\ stats.sessions_with_tags =
                   Cardinality({ i \in 1..Len(sessions) : get(sessions[i], "tags", <<>>) # <<>> })
            /\ DOMAIN stats.annotation_counts =
                   { n \in names : n # <<>> /\ ~IsVersionMarker(n) }
            /\ \A n \in DOMAIN stats.annotation_counts :
                   stats.annotation_counts[n] =
                       Cardinality({ k \in 1..Len(SessionTagNames) : SessionTagNames[k] = n })

\* the engine returned a bundle for a session whose only tag is the marker V3
\* and a session that carries a marker, an empty name and a name twice
C14_Witness ==
    /\ calls > 0
    /\ ~IsRaised(all_metrics)
    /\ \E i \in 1..Len(sessions) :
           /\ get(sessions[i], "tags", <<>>) # <<>>
           /\ \A j \in 1..Len(sessions[i].tags) :
                  /\ IsVersionMarker(tagName(sessions[i].tags[j]))
                  /\ sessions[i].tags[j].val[1] = "V"
    /\ \E n \in DOMAIN all_metrics.annotation_stats.annotation_counts :
           all_metrics.annotation_stats.annotation_counts[n] = 2
    /\ \E k \in 1..Len(SessionTagNames) : SessionTagNames[k] = <<>>
    /\ all_metrics.annotation_stats.sessions_with_tags = 2

\* the sum of the values of a function of counts over the keys S
RECURSIVE SumCounts(_, _)
SumCounts(f, S) ==
    IF S = {} THEN 0
    ELSE LET x == CHOOSE y \in S : TRUE IN f[x] + SumCounts(f, S \ {x})

\* C19: for every experiment the per-version counts of version_counts sum to
\* the experiment's entry of experiment_counts.
C19_VersionCountsSum ==
    calls > 0 /\ ~IsRaised(all_metrics) =>
        LET stats == all_metrics.experiment_stats
        IN  \A i \in 1..Len(stats.experiment_counts) :
                LET e == stats.experiment_counts[i].k
                IN  /\ e \in DOMAIN stats.version_counts
                    /\ SumCounts(stats.version_counts[e], DOMAIN stats.version_counts[e]) =
                           stats.experiment_counts[i].v

\* C20: with exactly one experiment and exactly one of its versions selected,
\* the number of sessions that pass the filter is the count shown next to that
\* version.
C20_VersionCountIsFilterCount ==
    pc = "ready" =>
        \A e \in DOMAIN experimentVersionsData :
            \A v \in KnownVersions(e) :
                selectedExperiments = {e} /\ selectedVersions = (e :> {v}) =>
                    Len(filteredSessions) = experimentVersionsData[e].versions[IntToStr(v)]

\* C18: generation fails, and no page is written, when no session record was
\* loaded, and only then.
C18_OnlyMissingDataIsFatal ==
    /\ sessions = <<>> /\ pc # "start" => pc = "failed" /\ allSessionsData = <<>>
    /\ pc = "failed" => sessions = <<>>

\* the ascending arrangement of a bucket
Ascending(bucket) ==
    CHOOSE s \in [1..Len(bucket) -> 0..MaxWords] :
        /\ \A i \in 1..(Len(s) - 1) : s[i] <= s[i + 1]
        /\ \A w \in 0..MaxWords :
               Cardinality({ i \in 1..Len(s) : s[i] = w })
                   = Cardinality({ i \in 1..Len(bucket) : bucket[i] = w })

\* the textbook median: 0 for no value, the middle value of the ascending
\* arrangement for an odd number of values, the mean of the two middle values
\* for an even number
TextbookMedian(bucket) ==
    LET s == Ascending(bucket)
        n == Len(bucket)
    IN  IF n = 0 THEN Frac(0, 1)
        ELSE IF n % 2 = 1 THEN Frac(s[(n + 1) \div 2], 1)
        ELSE Frac(s[n \div 2] + s[n \div 2 + 1], 2)

\* C17: the median of a bucket of word counts is 0 for an empty bucket, the
\* single value for one element and the mean of the two middle values of the
\* ascending order for an even length, and the engine (statistics.median),
\* DashboardData.get_median_user_words and the page's median agree on every
\* bucket.
C17_MedianCorrect ==
    pc = "medians" =>
        /\ medians.engine = TextbookMedian(word_counts)
        /\ medians.models = TextbookMedian(word_counts)
        /\ medians.client = TextbookMedian(word_counts)
        /\ Len(word_counts) = 1 => medians.client = Frac(word_counts[1], 1)

\* an even-length bucket given in descending order whose median is a half
C17_Witness ==
    /\ pc = "medians"
    /\ Len(word_counts) = 2
    /\ word_counts[1] > word_counts[2]
    /\ medians.client.d = 2
    /\ medians.engine = medians.client
    /\ medians.models = medians.client

\* the raw record that was normalized, and the Session (or exception) it gave
RawRecord == records[1]
Normalized == result[1]

\* every optional field the raw record data lacks, messages aside, has in s the
\* default of its type: the empty string, 0, the empty list (False for the
\* boolean is_default_version and {} for a message's metadata, their empty
\* equivalents)
FieldDefaults(data, s) ==
    LET team == get(data, "team", EmptyDict)
        experiment == get(data, "experiment", EmptyDict)
        versions == get(experiment, "versions", <<>>)
        participant == get(data, "participant", EmptyDict)
        msgs == get(data, "messages", ListValue(<<>>)).items
    IN  /\ "id" \notin DOMAIN data => s.id = ""
        /\ "url" \notin DOMAIN data => s.url = ""
        /\ "tags" \notin DOMAIN data => s.tags = <<>>
        /\ "name" \notin DOMAIN team => s.team.name = ""
        /\ "slug" \notin DOMAIN team => s.team.slug = ""
        /\ "id" \notin DOMAIN experiment => s.experiment.id = ""
        /\ "name" \notin DOMAIN experiment => s.experiment.name = <<>>
        /\ "url" \notin DOMAIN experiment => s.experiment.url = ""
        /\ "version_number" \notin DOMAIN experiment => s.experiment.version_number = 0
        /\ "versions" \notin DOMAIN experiment => s.experiment.versions = <<>>
        /\ Len(s.experiment.versions) = Len(versions)
        /\ \A i \in 1..Len(versions) :
               LET v == s.experiment.versions[i]
               IN  /\ "name" \notin DOMAIN versions[i] => v.name = ""
                   /\ "version_number" \notin DOMAIN versions[i] => v.version_number = 0
                   /\ "version_description" \notin DOMAIN versions[i]
                          => v.version_description = ""
                   /\ "is_default_version" \notin DOMAIN versions[i]
                          => v.is_default_version = FALSE
        /\ "identifier" \notin DOMAIN participant => s.participant.identifier = ""
        /\ "remote_id" \notin DOMAIN participant => s.participant.remote_id = ""
        /\ msgs # <<>> =>
               /\ s.messages.type = "list"
               /\ Len(s.messages.items) = Len(msgs)
               /\ \A i \in 1..Len(msgs) :
                      LET m == s.messages.items[i]
                      IN  /\ "role" \notin DOMAIN msgs[i] => m.role = ""
                          /\ "content" \notin DOMAIN msgs[i]
                                 => m.content = <<>> /\ m.word_count = 0
                          /\ "tags" \notin DOMAIN msgs[i] => m.tags = <<>>
                          /\ "attachments" \notin DOMAIN msgs[i] => m.attachments = <<>>
                          /\ "metadata" \notin DOMAIN msgs[i] => m.metadata = EmptyDict

BadRecords == {RecordPool[1], RecordPool[3], RecordPool[5], RecordPool[7]}

\* a record that fails to load or to normalize
FailsToNormalize(record) == record \in BadRecords
FailsToLoad(file) == file.text.type = "truncated"

Normalizes(record) == ~FailsToNormalize(record)
Loads(file) == ~FailsToLoad(file)

\* the records the loop has passed
Passed(batch) == SubSeq(batch, 1, cursor)

IdsOf(batch) == [i \in 1..Len(batch) |-> get(batch[i], "id", "")]

\* what the files of a batch hold, in order, the unreadable ones left out
Loaded(batch) ==
    LET ok == SelectSeq(batch, Loads) IN [i \in 1..Len(ok) |-> ok[i].text.value]

C21_SelectionConsistent ==
    pc = "ready" =>
        /\ DOMAIN selectedVersions \subseteq selectedExperiments
        /\ checked = selectedExperiments

\* an experiment was toggled off while another stays selected with versions
C21_Witness ==
    /\ pc = "ready"
    /\ lastOp = "toggleExperimentFilter"
    /\ deselected # {}
    /\ selectedExperiments # {}
    /\ DOMAIN selectedVersions # {}
    /\ \E i \in 1..Len(checkboxes) : checkboxes[i] \notin checked

\* the selected experiments the page knows a version of
SelectedWithVersions == { e \in selectedExperiments : KnownVersions(e) # {} }

\* C22: after Latest Only (selectLatestVersions), the version selection of
\* every selected experiment with known versions is exactly the singleton of its
\* highest known version, and no other experiment has a version selection.
C22_LatestOnly ==
    pc = "ready" /\ lastOp = "selectLatestVersions" =>
        /\ DOMAIN selectedVersions = SelectedWithVersions
        /\ \A e \in SelectedWithVersions :
               \E latest \in KnownVersions(e) :
                   /\ \A v \in KnownVersions(e) : v <= latest
                   /\ selectedVersions[e] = {latest}

\* Latest Only with an experiment selected that has two known versions
C22_Witness ==
    /\ pc = "ready"
    /\ lastOp = "selectLatestVersions"
    /\ \E e \in selectedExperiments :
           /\ Cardinality(KnownVersions(e)) >= 2
           /\ e \in DOMAIN selectedVersions
           /\ Cardinality(selectedVersions[e]) = 1

\* C23: a session record the normalizer rejects is skipped everywhere: the
\* sessions the aggregated metrics count (total_sessions) and the sessions
\* embedded in the page are exactly the records Session.from_api_data parsed
C23_RejectedSkippedEverywhere ==
    operation = "_fetch_all_data" /\ pc = "html" =>
        /\ all_metrics.basic_stats.total_sessions = Len(result.sessions)
        /\ Len(allSessionsData) = Len(result.sessions)
        /\ [i \in 1..Len(allSessionsData) |-> allSessionsData[i].id]
               = [i \in 1..Len(result.sessions) |-> result.sessions[i].id]


\* a fraction that lies between 0 and 100
IsPercentage(f) == 0 <= f.n /\ f.n <= 100 * f.d

\* C24: every count of a metrics bundle is bounded by its population
\* (sessions_with_messages, sessions_with_tags and total_coaching_annotations
\* by total_sessions; appreciation_count and dissatisfaction_count by
\* total_user_messages, itself by total_messages) and every percentage
\* (appreciation, dissatisfaction, each coaching_percentages entry) lies
\* between 0 and 100
C24_CountsBoundedByPopulation ==
    calls > 0 /\ ~IsRaised(all_metrics) =>
        LET basic == all_metrics.basic_stats
            sentiment == all_metrics.sentiment_stats
            quality == all_metrics.coaching_quality
        IN  /\ basic.sessions_with_messages <= basic.total_sessions
            /\ all_metrics.annotation_stats.sessions_with_tags <= basic.total_sessions
            /\ quality.total_coaching_annotations <= basic.total_sessions
            /\ sentiment.appreciation_count <= sentiment.total_user_messages
            /\ sentiment.dissatisfaction_count <= sentiment.total_user_messages
            /\ sentiment.total_user_messages <= all_metrics.message_stats.total_messages
            /\ IsPercentage(sentiment.appreciation_percentage)
            /\ IsPercentage(sentiment.dissatisfaction_percentage)
            /\ \A n \in DOMAIN quality.coaching_percentages :
                   IsPercentage(quality.coaching_percentages[n])

\* a call of the API client that has returned
Returned == operation \in {"_paginate", "_paginate_with_callback", "download_sessions"}
            /\ pc = "returned"

\* C25: when every response carries 'results' and 'next' and no max_pages is
\* given, _paginate returns the concatenation of the results of all the
\* server's pages, in order, nothing dropped and nothing twice, and
\* _paginate_with_callback hands the same pages, in the same order, to the
\* callback
C25_EveryRecordOnceInOrder ==
    Returned /\ server.format = "object" /\ max_pages = 0 =>
        /\ operation = "_paginate" => all_results = Flatten(server.pages)
        /\ operation = "_paginate_with_callback" => delivered = server.pages

\* C26: pagination terminates: the call returns (or raises) in the end,
\* whatever the response format, with or without max_pages
C26_PaginationTerminates == <>(pc = "returned" \/ pc = "raised")

\* the results a fetched response body contained
ResultsOf(body) ==
    IF server.format = "object" THEN body.results
    ELSE IF server.format = "list" THEN body.items
    ELSE <<body>>

FetchedResults == [i \in 1..Len(fetched) |-> ResultsOf(fetched[i])]

\* C27: with max_pages = k >= 1 at most k pages are fetched (the retries of a
\* rate-limited request are not fetches), and the call returns what those
\* pages contained: _paginate their concatenation, _paginate_with_callback
\* the count of what it handed, page by page, to the callback
C27_AtMostMaxPages ==
    operation \in {"_paginate", "_paginate_with_callback", "download_sessions"}
    /\ max_pages >= 1 =>
        /\ Len(fetched) <= max_pages
        /\ pc = "returned" =>
              /\ operation = "_paginate" => all_results = Flatten(FetchedResults)
              /\ operation # "_paginate" => delivered = FetchedResults
              /\ operation = "_paginate_with_callback" =>
                     total_processed = Len(Flatten(FetchedResults))

\* max_pages = 1 stopped a call after the first of two pages, which had a
\* 'next' and was fetched at the second attempt, after a 429
C27_Witness ==
    /\ Returned
    /\ max_pages = 1
    /\ server.format = "object"
    /\ Len(server.pages) = 2
    /\ Len(server.pages[1]) > 0
    /\ Len(fetched) = 1
    /\ depth = 1
    /\ next_url # NoneValue

\* C28: a rate-limited request is retried, not failed: a call of
\* _make_request raises only for an answer that is not a 429 (the error
\* status the server gave), never because of a 429
C28_RateLimitNeverFails ==
    operation \in {"_paginate", "_paginate_with_callback", "download_sessions"}
    /\ pc = "raised" => result.error = "OCSClientError"

\* C29: download-sessions with --limit N saves at most N sessions in total,
\* over all the pages processed, however many records a page holds
C29_LimitBoundsSaved ==
    operation = "download_sessions" /\ limit # 0 => result.saved_count <= limit

====
